---- MODULE Spec2Model ----
(***************************************************************************)
(* A model of dapper, an object mapper for Go: the type registry           *)
(* (AddType), parameter substitution, the finder (Single, Get, All,        *)
(* Scalar) with association loading, and Insert/Update/Delete with and     *)
(* without a transaction.                                                  *)
(*                                                                         *)
(* Go types are sequences of wrappers ending in a base name:               *)
(*   <<"slice", "ptr", "OrderItem">>  is  []*OrderItem.                    *)
(* Struct tags are token sequences in which "," and "=" are tokens:        *)
(*   <<"id", ",", "pk", ",", "table", "=", "users">> is `id,pk,table=users`*)
(* Text that is rewritten character by character (SQL with placeholders,   *)
(* quoted literals) is a sequence of one-character strings.                *)
(*                                                                         *)
(* A value that a statement of the source computes once and then uses      *)
(* several times is passed on as an operator parameter, so some functions  *)
(* of the source are split into a chain of operators.                      *)
(***************************************************************************)
EXTENDS Integers, Sequences, FiniteSets, TLC

VARIABLES
    typeCache,  \* reflection: typeCache, struct name -> descriptor reference (0: no entry)
    heap,       \* the typeInfo objects allocated so far; a reference is an index
    db,         \* the database: committed tables, the open transaction, the id counters
    returned,   \* struct name -> the descriptor references AddType has returned for it
    res,        \* the call that returned last, with its inputs and results
    nq          \* number of calls made so far (bounded)

vars == <<typeCache, heap, returned, db, res, nq>>

\* ---------------------------------------------------------------- helpers

EmptyMap == [x \in {} |-> 0]

Put(m, k, v) == [x \in (DOMAIN m) \cup {k} |-> IF x = k THEN v ELSE m[x]]

Range(s) == {s[i] : i \in DOMAIN s}

RECURSIVE IndexOf(_, _, _)
\* first index >= i of token x in s, 0 when there is none
IndexOf(s, x, i) ==
    IF i > Len(s) THEN 0
    ELSE IF s[i] = x THEN i
    ELSE IndexOf(s, x, i + 1)

RECURSIVE Split(_, _)
\* strings.Split(s, sep) on token sequences
Split(s, sep) ==
    LET k == IndexOf(s, sep, 1)
    IN  IF k = 0 THEN <<s>>
        ELSE <<SubSeq(s, 1, k - 1)>> \o Split(SubSeq(s, k + 1, Len(s)), sep)

\* strings.SplitN(s, sep, 2)
SplitN2(s, sep) ==
    LET k == IndexOf(s, sep, 1)
    IN  IF k = 0 THEN <<s>>
        ELSE <<SubSeq(s, 1, k - 1), SubSeq(s, k + 1, Len(s))>>

\* strings.HasPrefix(s, word) for a tag whose first token is compared
HasPrefix(s, word) == Len(s) >= 1 /\ s[1] = word

\* the string a token sequence of at most one token spells
TokStr(s) == IF s = <<>> THEN "" ELSE s[1]

\* ------------------------------------------------------- the struct types

Fld(name, type, tag) == [Name |-> name, Type |-> type, Tag |-> tag]

PkAutoTag(col, table) ==
    <<col, ",", "primarykey", ",", "autoincrement", ",", "table", "=", table>>

\* The struct types the model registers and queries.  user, Order, OrderItem,
\* userWithoutTableNameTag and userWithoutPrimaryKeyTag are the test tables;
\* Parcel/Shipment is a one-to-one pair whose primary-key fields have
\* different names; Ledger declares two one-to-many associations on one
\* far table; Empty has no field and Hooks only fields AddType skips; the
\* Bad... and Empty... types carry an association tag without "=" or with
\* nothing after it;
\* searchQuery is a binding type in the manner of sampleQuery.
StructNames ==
    {"user", "userWithoutTableNameTag", "userWithoutPrimaryKeyTag",
     "Order", "OrderItem", "Parcel", "Shipment", "Ledger", "Empty", "Hooks",
     "searchQuery", "userWithNote",
     "BadItems", "BadItemsFirst", "EmptyItems", "BadOrder", "EmptyOrder",
     "ScalarItems", "StructItems"}

StructFields(n) ==
    CASE n = "user" ->
           << Fld("validater", <<"interface">>, <<>>),
              Fld("Id", <<"int64">>, PkAutoTag("id", "users")),
              Fld("Name", <<"string">>, <<"name">>),
              Fld("Ignored", <<"string">>, <<"-">>) >>
      [] n = "userWithoutTableNameTag" ->
           << Fld("Id", <<"int64">>, <<"id", ",", "primarykey", ",", "autoincrement">>),
              Fld("Name", <<"string">>, <<"name">>) >>
      [] n = "userWithoutPrimaryKeyTag" ->
           << Fld("Id", <<"int64">>, <<"id", ",", "autoincrement", ",", "table", "=", "users">>),
              Fld("Name", <<"string">>, <<"name">>) >>
      [] n = "Order" ->
           << Fld("Id", <<"int64">>, PkAutoTag("id", "orders")),
              Fld("RefId", <<"int64">>, <<"ref_id">>),
              Fld("Items", <<"slice", "ptr", "OrderItem">>, <<"oneToMany", "=", "OrderId">>) >>
      [] n = "OrderItem" ->
           << Fld("Id", <<"int64">>, PkAutoTag("id", "order_items")),
              Fld("OrderId", <<"int64">>, <<"order_id">>),
              Fld("ReturnId", <<"int64">>, <<"return_id">>),
              Fld("Order", <<"ptr", "Order">>, <<"oneToOne", "=", "OrderId">>) >>
      [] n = "Parcel" ->
           << Fld("Id", <<"int64">>, PkAutoTag("id", "parcels")),
              Fld("ShipmentNo", <<"int64">>, <<"shipment_no">>),
              Fld("Shipment", <<"ptr", "Shipment">>, <<"oneToOne", "=", "ShipmentNo">>) >>
      [] n = "Shipment" ->
           << Fld("No", <<"int64">>, <<"no", ",", "pk", ",", "table", "=", "shipments">>),
              Fld("Id", <<"int64">>, <<"id">>) >>
      [] n = "Ledger" ->
           << Fld("Id", <<"int64">>, PkAutoTag("id", "orders")),
              Fld("Items", <<"slice", "ptr", "OrderItem">>, <<"oneToMany", "=", "OrderId">>),
              Fld("Returns", <<"slice", "ptr", "OrderItem">>, <<"oneToMany", "=", "ReturnId">>) >>
      [] n = "Empty" -> << >>
      [] n = "BadItems" ->
           << Fld("Id", <<"int64">>, PkAutoTag("id", "orders")),
              Fld("Items", <<"slice", "ptr", "OrderItem">>, <<"oneToMany">>) >>
      [] n = "BadItemsFirst" ->
           << Fld("Items", <<"slice", "ptr", "OrderItem">>, <<"oneToMany">>),
              Fld("Id", <<"int64">>, PkAutoTag("id", "orders")) >>
      [] n = "EmptyItems" ->
           << Fld("Id", <<"int64">>, PkAutoTag("id", "orders")),
              Fld("Items", <<"slice", "ptr", "OrderItem">>, <<"oneToMany", "=">>) >>
      [] n = "BadOrder" ->
           << Fld("Id", <<"int64">>, PkAutoTag("id", "order_items")),
              Fld("Order", <<"ptr", "Order">>, <<"oneToOne">>) >>
      [] n = "EmptyOrder" ->
           << Fld("Id", <<"int64">>, PkAutoTag("id", "order_items")),
              Fld("Order", <<"ptr", "Order">>, <<"oneToOne", "=">>) >>
      [] n = "ScalarItems" ->
           << Fld("Id", <<"int64">>, PkAutoTag("id", "orders")),
              Fld("Items", <<"int64">>, <<"oneToMany", "=", "OrderId">>) >>
      [] n = "StructItems" ->
           << Fld("Id", <<"int64">>, PkAutoTag("id", "orders")),
              Fld("Items", <<"slice", "OrderItem">>, <<"oneToMany", "=", "OrderId">>) >>
      [] n = "userWithNote" ->
           << Fld("Id", <<"int64">>, PkAutoTag("id", "users")),
              Fld("Name", <<"string">>, <<"name">>),
              Fld("Note", <<"int64">>, <<"note">>) >>
      [] n = "searchQuery" ->
           << Fld("Id", <<"int64">>, <<"id", ",", "primarykey", ",", "autoincrement">>),
              Fld("IdCategory", <<"int64">>, <<>>),
              Fld("Name", <<"string">>, <<>>),
              Fld("Ignore", <<"string">>, <<"-">>) >>
      [] n = "Hooks" ->
           << Fld("OnSave", <<"func">>, <<>>),
              Fld("Cache", <<"map">>, <<>>) >>

\* reflect.Type.Kind
Kind(t) ==
    IF Len(t) > 1 THEN t[1]
    ELSE IF t[1] \in StructNames THEN "struct" ELSE t[1]

\* reflect.Type.Elem
Elem(t) == Tail(t)

\* ------------------------------------------------------ the type registry

RECURSIVE BaseType(_)
\* AddType: "always redirect to the base type"
BaseType(gotype) ==
    IF Kind(gotype) \in {"array", "ptr", "slice"}
    THEN BaseType(Elem(gotype))
    ELSE gotype

NewTypeInfo(gotype) ==
    [ Type            |-> gotype,
      TableName       |-> "",
      FieldNames      |-> << >>,
      FieldInfos      |-> EmptyMap,
      ColumnNames     |-> << >>,
      ColumnInfos     |-> EmptyMap,
      AssocFieldNames |-> << >>,
      OneToOneInfos   |-> EmptyMap,
      OneToManyInfos  |-> EmptyMap ]

NewFieldInfo(field) ==
    [ FieldName       |-> field.Name,
      ColumnName      |-> "",
      Type            |-> field.Type,
      IsPrimaryKey    |-> FALSE,
      IsAutoIncrement |-> FALSE,
      IsTransient     |-> FALSE ]

RECURSIVE ApplyModifiers(_, _, _)
\* AddType: "check for additional tags", over tags[1:]; the accumulator holds
\* the field info, the table name and whether tableAndName[1] was out of range
ApplyModifiers(acc, tags, j) ==
    IF j > Len(tags) \/ acc.panic THEN acc
    ELSE
      LET t  == tags[j]
          w  == TokStr(t)
          f1 == IF Len(t) = 1 /\ w \in {"primarykey", "pk"}
                THEN [acc.fi EXCEPT !.IsPrimaryKey = TRUE] ELSE acc.fi
          f2 == IF Len(t) = 1 /\ w \in {"autoincrement", "serial"}
                THEN [f1 EXCEPT !.IsAutoIncrement = TRUE] ELSE f1
          tn == SplitN2(t, "=")
      IN  IF HasPrefix(t, "table")
          THEN IF Len(tn) < 2
               THEN [acc EXCEPT !.fi = f2, !.panic = TRUE]
               ELSE ApplyModifiers([acc EXCEPT !.fi = f2, !.table = TokStr(tn[2])], tags, j + 1)
          ELSE ApplyModifiers([acc EXCEPT !.fi = f2], tags, j + 1)


\* AddType, "we have a field": fi and the table name are in acc
AddColumn(st, acc) ==
    IF acc.panic
    THEN [st EXCEPT !.ti.TableName = acc.table, !.err = "panic"]
    ELSE [st EXCEPT
            !.ti.TableName   = acc.table,
            !.ti.FieldNames  = Append(@, acc.fi.FieldName),
            !.ti.FieldInfos  = Put(@, acc.fi.FieldName, acc.fi),
            !.ti.ColumnNames = IF acc.fi.IsTransient THEN @
                               ELSE Append(@, acc.fi.ColumnName),
            !.ti.ColumnInfos = IF acc.fi.IsTransient THEN @
                               ELSE Put(@, acc.fi.ColumnName, acc.fi),
            !.stored = TRUE]

\* AddType, "Field name": the field info after tags[0]
FirstTag(field, tags) ==
    IF field.Tag = << >>
    THEN [NewFieldInfo(field) EXCEPT !.ColumnName = field.Name]
    ELSE IF TokStr(tags[1]) = "-"
    THEN [NewFieldInfo(field) EXCEPT !.ColumnName = "", !.IsTransient = TRUE]
    ELSE [NewFieldInfo(field) EXCEPT !.ColumnName = TokStr(tags[1])]

\* fmt.Sprintf("invalid %s specification for field %s: %s", ...), for the
\* field names of the catalog
InvalidSpecification(kind, fieldName) ==
    CASE kind = "oneToMany" /\ fieldName = "Items" ->
           "invalid oneToMany specification for field Items"
      [] kind = "oneToOne" /\ fieldName = "Order" ->
           "invalid oneToOne specification for field Order"
      [] OTHER -> "invalid specification"

\* AddType, "we have a 1:n association"; parts is SplitN(tag, "=", 2)
AddOneToMany(st, field, parts) ==
    IF Len(parts) # 2
    THEN [st EXCEPT !.err = InvalidSpecification("oneToMany", field.Name)]
    ELSE IF Len(field.Type) < 2
    THEN [st EXCEPT !.err = "panic"]       \* field.Type.Elem() of a non-container
    ELSE [st EXCEPT
            !.ti.AssocFieldNames = Append(@, field.Name),
            !.ti.OneToManyInfos =
                Put(@, field.Name,
                    [ FieldName       |-> field.Name,
                      SliceType       |-> field.Type,
                      ElemType        |-> Elem(field.Type),
                      ForeignKeyField |-> TokStr(parts[2]) ]),
            !.stored = TRUE]

\* AddType, "we have a 1:1 association"; parts is SplitN(tag, "=", 2)
AddOneToOne(st, field, parts) ==
    IF Len(parts) # 2
    THEN [st EXCEPT !.err = InvalidSpecification("oneToOne", field.Name)]
    ELSE [st EXCEPT
            !.ti.AssocFieldNames = Append(@, field.Name),
            !.ti.OneToOneInfos =
                Put(@, field.Name,
                    [ FieldName       |-> field.Name,
                      SelfType        |-> st.ti.Type,
                      TargetType      |-> field.Type,
                      ForeignKeyField |-> TokStr(parts[2]) ]),
            !.stored = TRUE]

\* AddType, the body of the field loop for one field.  st is
\* [ti, err, stored]: the descriptor under construction, the error returned
\* ("" for none), and whether typeCache[gotype] = ti has been executed.
AddField(st, field) ==
    IF Kind(field.Type) \in {"chan", "func", "interface", "map", "unsafe.Pointer"}
    THEN st
    ELSE IF field.Tag # << >> /\ HasPrefix(field.Tag, "oneToMany")
    THEN AddOneToMany(st, field, SplitN2(field.Tag, "="))
    ELSE IF field.Tag # << >> /\ HasPrefix(field.Tag, "oneToOne")
    THEN AddOneToOne(st, field, SplitN2(field.Tag, "="))
    ELSE AddColumn(st,
           ApplyModifiers([ fi    |-> FirstTag(field, Split(field.Tag, ",")),
                            table |-> st.ti.TableName,
                            panic |-> FALSE ],
                          Split(field.Tag, ","), 2))

RECURSIVE ScanFields(_, _, _)
\* AddType, the field loop: stops at the first error
ScanFields(st, fields, i) ==
    IF i > Len(fields) \/ st.err # "" THEN st
    ELSE ScanFields(AddField(st, fields[i]), fields, i + 1)

\* AddType on a type that is not in the cache: what it builds, the error it
\* returns, and whether it put the descriptor into the cache
BuildType(name) ==
    ScanFields([ti |-> NewTypeInfo(<<name>>), err |-> "", stored |-> FALSE],
               StructFields(name), 1)

\* AddType after the cache miss: b is what the field loop built
AddNewType(c, h, name, b) ==
    [ cache |-> IF b.stored THEN [c EXCEPT ![name] = Len(h) + 1] ELSE c,
      heap  |-> Append(h, b.ti),
      ref   |-> IF b.err = "" THEN Len(h) + 1 ELSE 0,
      err   |-> b.err ]

\* AddType once gotype is redirected to the base type
AddBaseType(c, h, name) ==
    IF c[name] # 0
    THEN [cache |-> c, heap |-> h, ref |-> c[name], err |-> ""]
    ELSE AddNewType(c, h, name, BuildType(name))

\* AddType(gotype) against the cache c and the allocated descriptors h:
\* the new cache and heap, the reference returned (0 for nil) and the error
AddType(c, h, gotype) == AddBaseType(c, h, BaseType(gotype)[1])

\* typeInfo.GetPrimaryKey: the fields a scan of FieldInfos can return
PrimaryKeys(ti) ==
    {ti.FieldInfos[n] : n \in {m \in DOMAIN ti.FieldInfos : ti.FieldInfos[m].IsPrimaryKey}}

HasPrimaryKey(ti) == PrimaryKeys(ti) # {}

GetPrimaryKey(ti) == CHOOSE fi \in PrimaryKeys(ti) : TRUE

\* typeInfo.GetAutoIncrement
AutoIncrements(ti) ==
    {ti.FieldInfos[n] : n \in {m \in DOMAIN ti.FieldInfos : ti.FieldInfos[m].IsAutoIncrement}}

HasAutoIncrement(ti) == AutoIncrements(ti) # {}

GetAutoIncrement(ti) == CHOOSE fi \in AutoIncrements(ti) : TRUE

\* ------------------------------------------------------------ Go values

Nil == [k |-> "nil"]
NilSlice == [k |-> "nilslice"]
Ptr(e) == [k |-> "ptr", e |-> e]
Struct(e) == [k |-> "struct", e |-> e]
List(items) == [k |-> "list", items |-> items]

Zero(t) ==
    IF Kind(t) = "string" THEN << >>
    ELSE IF Kind(t) = "ptr" THEN Nil
    ELSE IF Kind(t) = "slice" THEN NilSlice
    ELSE 0

\* the fields of a struct that hold data
Mappable(fields) ==
    {i \in DOMAIN fields :
       Kind(fields[i].Type) \notin {"chan", "func", "interface", "map", "unsafe.Pointer"}}

ZeroOf(fields) ==
    [n \in {fields[i].Name : i \in Mappable(fields)} |->
       Zero((CHOOSE f \in Range(fields) : f.Name = n).Type)]

\* reflect.New(gotype).Elem(): field name -> zero value
ZeroStruct(name) == ZeroOf(StructFields(name))

Described(b, z) == [ti |-> b.ti, err |-> b.err, zero |-> z]

\* For every struct type what AddType returns for it (the descriptor is the
\* same whether it is built now or found in the cache) and its zero value.
\* The finder and the writers read the descriptors from this table.
TypeTable == [n \in StructNames |-> Described(BuildType(n), ZeroStruct(n))]

\* oneToOneInfo.GetTableName / oneToManyInfo.GetTableName: the far type is
\* info.TargetType resp. info.ElemType
AssocTableName(types, farType) ==
    [ err  |-> types[BaseType(farType)[1]].err,
      name |-> types[BaseType(farType)[1]].ti.TableName,
      type |-> BaseType(farType)[1] ]

\* typeInfo.GetPrimaryKey().ColumnName of a registered type t
PrimaryKeyColumn(t) ==
    IF t.err # "" THEN [err |-> t.err, name |-> ""]
    ELSE IF ~HasPrimaryKey(t.ti) THEN [err |-> "ErrNoPrimaryKey", name |-> ""]
    ELSE [err |-> "", name |-> GetPrimaryKey(t.ti).ColumnName]

\* oneToOneInfo.GetColumnName: the primary-key column of the target type
OneToOneColumnName(types, info) ==
    PrimaryKeyColumn(types[BaseType(info.TargetType)[1]])

\* the column of field fieldName of a registered type t
ColumnOfField(t, fieldName) ==
    IF t.err # "" THEN [err |-> t.err, name |-> ""]
    ELSE IF fieldName \in DOMAIN t.ti.FieldInfos
    THEN [err |-> "", name |-> t.ti.FieldInfos[fieldName].ColumnName]
    ELSE [err |-> "no column found for field", name |-> ""]

\* oneToManyInfo.GetColumnName: the column of the foreign-key field of the
\* element type
OneToManyColumnName(types, info) ==
    ColumnOfField(types[BaseType(info.ElemType)[1]], info.ForeignKeyField)
\* ---------------------------------------------------------------- quoting

DigitChars == <<"0", "1", "2", "3", "4", "5", "6", "7", "8", "9">>

RECURSIVE Digits(_)
\* fmt.Sprintf("%d", n) for n >= 0
Digits(n) ==
    IF n < 10 THEN <<DigitChars[n + 1]>>
    ELSE Digits(n \div 10) \o <<DigitChars[(n % 10) + 1]>>

RECURSIVE QuoteString(_)
\* QuoteString: every backslash and every single quote is doubled
QuoteString(s) ==
    IF s = << >> THEN << >>
    ELSE IF Head(s) \in {"\\", "'"}
    THEN <<Head(s), Head(s)>> \o QuoteString(Tail(s))
    ELSE <<Head(s)>> \o QuoteString(Tail(s))

IntKinds == {"int", "int16", "int32", "int64", "uint16", "uint32", "uint64"}

\* Quote(val) for a value of Go type t; <<"!">> stands for its panic
Quote(t, v) ==
    IF Kind(t) = "string" THEN <<"'">> \o QuoteString(v) \o <<"'">>
    ELSE IF Kind(t) \in IntKinds THEN Digits(v)
    ELSE IF Kind(t) = "bool" THEN (IF v THEN <<"1">> ELSE <<"0">>)
    ELSE <<"!">>

\* ----- the SQL engine's side: a literal read back as a value

DigitValue(c) == CHOOSE d \in 0..9 : DigitChars[d + 1] = c

RECURSIVE ParseDigits(_, _)
ParseDigits(s, acc) ==
    IF s = << >> THEN acc
    ELSE ParseDigits(Tail(s), acc * 10 + DigitValue(Head(s)))

RECURSIVE Unescape(_)
\* a doubled quote or backslash inside a string literal is one character
Unescape(s) ==
    IF s = << >> THEN << >>
    ELSE IF Len(s) >= 2 /\ s[1] \in {"\\", "'"} /\ s[2] = s[1]
    THEN <<s[1]>> \o Unescape(SubSeq(s, 3, Len(s)))
    ELSE <<s[1]>> \o Unescape(Tail(s))

IsStringLiteral(s) == Len(s) >= 2 /\ s[1] = "'" /\ s[Len(s)] = "'"

IsNumberLiteral(s) == s # << >> /\ \A i \in DOMAIN s : s[i] \in Range(DigitChars)

ParseLiteral(s) ==
    IF IsStringLiteral(s) THEN Unescape(SubSeq(s, 2, Len(s) - 1))
    ELSE ParseDigits(s, 0)

\* ----------------------------------------------------------- the database

TableNames == {"users", "orders", "order_items", "parcels", "shipments"}

Columns(table) ==
    CASE table = "users"       -> {"id", "name"}
      [] table = "orders"      -> {"id", "ref_id"}
      [] table = "order_items" -> {"id", "order_id", "return_id"}
      [] table = "parcels"     -> {"id", "shipment_no"}
      [] table = "shipments"   -> {"no", "id"}

\* the primary-key column of a table, by which unordered results come back
KeyColumn(table) == IF table = "shipments" THEN "no" ELSE "id"

RECURSIVE SortRows(_, _)
SortRows(S, col) ==
    IF S = {} THEN << >>
    ELSE LET m == CHOOSE r \in S : \A o \in S : r[col] <= o[col]
         IN  <<m>> \o SortRows(S \ {m}, col)

\* A SELECT statement as Query.Sql renders it: the table, the column of the
\* WHERE clause, the literals of its IN list (one literal for Eq) and the
\* projected columns.
SelectIn(table, column, literals) ==
    [table |-> table, column |-> column, values |-> literals, cols |-> {"*"}]

\* whereIn.SubSql on a single slice argument: every element quoted, in order
InQuery(table, column, type, ids) ==
    SelectIn(table, column, [i \in DOMAIN ids |-> Quote(type, ids[i])])

\* whereEqual.SubSql
EqQuery(table, column, type, v) ==
    SelectIn(table, column, <<Quote(type, v)>>)

ResultColumns(q) ==
    IF q.cols = {"*"} THEN Columns(q.table) ELSE q.cols

\* sql.DB.Query: the rows the statement matches, in key order
RunQuery(tables, q) ==
    IF q.table \notin TableNames \/ q.column \notin Columns(q.table)
       \/ \E i \in DOMAIN q.values : ~IsNumberLiteral(q.values[i])
    THEN [err |-> "sql error", rows |-> << >>]
    ELSE [err |-> "",
          rows |-> SortRows(
                     {r \in tables[q.table] :
                        r[q.column] \in {ParseLiteral(q.values[i]) : i \in DOMAIN q.values}},
                     KeyColumn(q.table))]


\* ------------------------------------------------------------ finder.All

NewRecord(elemIsPtr, e) == IF elemIsPtr THEN Ptr(e) ELSE Struct(e)

\* rows.Scan into the fields that ColumnInfos maps the result columns to;
\* a column without a mapped field goes to the placeholder
ScanRow(ti, e, row, columns) ==
    [n \in DOMAIN e |->
       IF \E c \in columns : c \in DOMAIN ti.ColumnInfos /\ ti.ColumnInfos[c].FieldName = n
       THEN row[CHOOSE c \in columns :
                  c \in DOMAIN ti.ColumnInfos /\ ti.ColumnInfos[c].FieldName = n]
       ELSE e[n]]

\* finder.All, "for rows.Next()" and resultv.Elem().Set(slicev.Slice(0, i)):
\* arr is the caller's slice extended to its capacity, r what db.Query gave
AppendRows(t, elemIsPtr, arr, r, columns) ==
    IF r.err # "" THEN [err |-> r.err, dest |-> << >>, set |-> FALSE]
    ELSE [ err  |-> "",
           set  |-> TRUE,
           dest |-> SubSeq(arr \o [m \in 1..Len(r.rows) |->
                                     NewRecord(elemIsPtr,
                                               ScanRow(t.ti, t.zero, r.rows[m], columns))],
                           1, Len(r.rows)) ]

\* finder.All up to the loading of the associations
AllRows(types, tables, name, elemIsPtr, arr, q) ==
    IF types[name].err # ""
    THEN [err |-> types[name].err, dest |-> << >>, set |-> FALSE]
    ELSE AppendRows(types[name], elemIsPtr, arr, RunQuery(tables, q), ResultColumns(q))

\* QueryByIds
NewIdQ(table, column, ti, assoc) ==
    [ table |-> table, ColumnName |-> column, TypeInfo |-> ti, assoc |-> assoc,
      Ids |-> << >>, Records |-> << >> ]

AddIdAppendAlways(ids, v) == Append(ids, v)

\* "if _, idFound := idQ.IdMap[id]; !idFound { ... append }"
AddId(ids, v) == IF v \in Range(ids) THEN ids ELSE Append(ids, v)

\* "idQ, found := oneToOneQueries[assocTableName]; if !found { idQ = ... }"
BatchFor(batches, tn, cn, ti, assoc) ==
    IF tn.name \in DOMAIN batches THEN batches[tn.name]
    ELSE NewIdQ(tn.name, cn.name, ti, assoc)

AddToBatch(idQ, id, k) ==
    [idQ EXCEPT !.Ids = AddId(@, id), !.Records = Append(@, k)]

\* All, the body of the OneToOne loop for record k (entity e); tn and cn
\* are what GetTableName and GetColumnName returned
CollectOneToOne(acc, ti, e, k, assoc, tn, cn) ==
    IF tn.err # "" THEN [acc EXCEPT !.err = tn.err, !.added = Append(@, tn.type)]
    ELSE IF cn.err # "" THEN [acc EXCEPT !.err = cn.err, !.added = Append(@, tn.type)]
    ELSE IF Kind(assoc.TargetType) # "ptr"
    THEN [acc EXCEPT !.err = "a field marked with oneToOne must be a pointer",
                     !.added = Append(@, tn.type)]
    ELSE IF assoc.ForeignKeyField \notin DOMAIN e
    THEN [acc EXCEPT !.err = "panic", !.added = Append(@, tn.type)]
    ELSE [acc EXCEPT
            !.added = Append(@, tn.type),
            !.oneToOne = Put(@, tn.name,
                             AddToBatch(BatchFor(acc.oneToOne, tn, cn, ti, assoc),
                                        e[assoc.ForeignKeyField], k))]

RECURSIVE GatherOneToOne(_, _, _, _, _, _, _)
\* All, the OneToOne loop over q.includes for record k
GatherOneToOne(types, acc, ti, e, k, includes, j) ==
    IF j > Len(includes) \/ acc.err # "" THEN acc
    ELSE IF includes[j] \notin DOMAIN ti.OneToOneInfos
    THEN GatherOneToOne(types, acc, ti, e, k, includes, j + 1)
    ELSE GatherOneToOne(types,
           CollectOneToOne(acc, ti, e, k, ti.OneToOneInfos[includes[j]],
              AssocTableName(types, ti.OneToOneInfos[includes[j]].TargetType),
              OneToOneColumnName(types, ti.OneToOneInfos[includes[j]])),
           ti, e, k, includes, j + 1)

\* All, the body of the OneToMany loop for record k (entity e)
CollectOneToMany(acc, ti, e, k, assoc, tn, cn) ==
    IF tn.err # "" THEN [acc EXCEPT !.err = tn.err, !.added = Append(@, tn.type)]
    ELSE IF cn.err # "" THEN [acc EXCEPT !.err = cn.err, !.added = Append(@, tn.type)]
    ELSE [acc EXCEPT
            !.added = Append(@, tn.type),
            !.oneToMany = Put(@, tn.name,
                              AddToBatch(BatchFor(acc.oneToMany, tn, cn, ti, assoc),
                                         e[GetPrimaryKey(ti).FieldName], k))]

RECURSIVE GatherOneToMany(_, _, _, _, _, _, _)
\* All, the OneToMany loop over q.includes for record k
GatherOneToMany(types, acc, ti, e, k, includes, j) ==
    IF j > Len(includes) \/ acc.err # "" THEN acc
    ELSE IF includes[j] \notin DOMAIN ti.OneToManyInfos
    THEN GatherOneToMany(types, acc, ti, e, k, includes, j + 1)
    ELSE GatherOneToMany(types,
           CollectOneToMany(acc, ti, e, k, ti.OneToManyInfos[includes[j]],
              AssocTableName(types, ti.OneToManyInfos[includes[j]].ElemType),
              OneToManyColumnName(types, ti.OneToManyInfos[includes[j]])),
           ti, e, k, includes, j + 1)

RECURSIVE Gather(_, _, _, _, _, _)
\* All, "loop through all elements of the resultset and collect the table
\* name, column name, and ids of the entities to load"
Gather(types, acc, name, dest, includes, k) ==
    IF k > Len(dest) \/ acc.err # "" THEN acc
    ELSE IF dest[k].k # "ptr"
    THEN [acc EXCEPT !.err = "panic"]      \* recordv.Elem().Type() on a struct or a nil pointer
    ELSE IF ~HasPrimaryKey(types[name].ti)
    THEN [acc EXCEPT !.err = "ErrNoPrimaryKey"]
    ELSE Gather(types,
                GatherOneToMany(types,
                    GatherOneToOne(types, acc, types[name].ti, dest[k].e, k, includes, 1),
                    types[name].ti, dest[k].e, k, includes, 1),
                name, dest, includes, k + 1)

\* "query := idQ.Query.Where().In(idQ.ColumnName, idQ.Ids)" of a oneToMany batch
OneToManyQuery(idQ) ==
    InQuery(idQ.table, idQ.ColumnName, GetPrimaryKey(idQ.TypeInfo).Type, idQ.Ids)

\* "Iterate through all children in the sub-query": those whose foreign key
\* equals parentId, in the order of the result
ItemsOf(children, fkField, parentId) ==
    LET Match(c) == c.e[fkField] = parentId
    IN  List(SelectSeq(children, Match))

\* All, "Iterate through children, find the parent, and assign the children"
AssignChildren(dest, idQ, q, children) ==
    IF children.err # "" THEN [err |-> children.err, dest |-> dest, query |-> q]
    ELSE IF children.dest # << >>
            /\ (Kind(idQ.assoc.ElemType) # "ptr"
                \/ idQ.assoc.ForeignKeyField \notin DOMAIN children.dest[1].e)
    THEN [err |-> "panic", dest |-> dest, query |-> q]
    ELSE [err   |-> "",
          query |-> q,
          dest  |-> [k \in DOMAIN dest |->
                       IF k \in Range(idQ.Records)
                       THEN Ptr([dest[k].e EXCEPT
                                   ![idQ.assoc.FieldName] =
                                      ItemsOf(children.dest, idQ.assoc.ForeignKeyField,
                                              dest[k].e[GetPrimaryKey(idQ.TypeInfo).FieldName])])
                       ELSE dest[k]]]

\* All, one batch of oneToManyQueries: the IN query, then for every parent
\* the children whose foreign-key field equals the parent's primary key
ResolveOneToMany(types, tables, dest, idQ) ==
    AssignChildren(dest, idQ, OneToManyQuery(idQ),
                   AllRows(types, tables, BaseType(idQ.assoc.SliceType)[1],
                           Kind(idQ.assoc.ElemType) = "ptr", << >>, OneToManyQuery(idQ)))

\* the type of the values a oneToOne batch collects: the parent's foreign key
ForeignKeyType(idQ) ==
    IF idQ.assoc.ForeignKeyField \in DOMAIN idQ.TypeInfo.FieldInfos
    THEN idQ.TypeInfo.FieldInfos[idQ.assoc.ForeignKeyField].Type
    ELSE <<"struct">>

\* "query := idQ.Query.Where().In(idQ.ColumnName, idQ.Ids)" of a oneToOne batch
OneToOneQuery(idQ) ==
    InQuery(idQ.table, idQ.ColumnName, ForeignKeyType(idQ), idQ.Ids)

\* the name of the field All reads the far row's key from
\* ("childIdFieldInfo, _ := idQ.TypeInfo.GetPrimaryKey()")
ChildIdFieldName(idQ) == GetPrimaryKey(idQ.TypeInfo).FieldName

\* the children whose id equals the parent's foreign key
MatchesOf(children, idName, fk) ==
    LET Match(c) == c.e[idName] = fk
    IN  SelectSeq(children, Match)

\* the parent after the child loop: the last matching child wins
WithChild(e, fieldName, ms) ==
    IF ms = << >> THEN Ptr(e) ELSE Ptr([e EXCEPT ![fieldName] = ms[Len(ms)]])

\* All, "Iterate through entities and assign the matching child"
AssignChild(dest, idQ, q, children, idName) ==
    IF children.err # "" THEN [err |-> children.err, dest |-> dest, query |-> q]
    ELSE IF children.dest # << >> /\ idName \notin DOMAIN children.dest[1].e
    THEN [err |-> "panic", dest |-> dest, query |-> q]
    ELSE [err   |-> "",
          query |-> q,
          dest  |-> [k \in DOMAIN dest |->
                       IF k \in Range(idQ.Records)
                       THEN WithChild(dest[k].e, idQ.assoc.FieldName,
                                      MatchesOf(children.dest, idName,
                                                dest[k].e[idQ.assoc.ForeignKeyField]))
                       ELSE dest[k]]]

\* All, one batch of oneToOneQueries: the IN query, then every child is
\* handed to every parent whose foreign key equals the child's id
ResolveOneToOne(types, tables, dest, idQ) ==
    AssignChild(dest, idQ, OneToOneQuery(idQ),
                AllRows(types, tables, BaseType(idQ.assoc.TargetType)[1], TRUE, << >>,
                        OneToOneQuery(idQ)),
                ChildIdFieldName(idQ))

NextBatch(st, r) ==
    [err |-> r.err, dest |-> r.dest, queries |-> Append(st.queries, r.query)]

RECURSIVE ResolveBatches(_, _, _, _, _, _)
\* All, "for _, idQ := range oneToManyQueries" and then
\* "for _, idQ := range oneToOneQueries"; many and one are the far tables
\* still to do.  The batches of one map write different fields, so the
\* order within a map shows only in the order of the queries.
ResolveBatches(types, tables, st, g, many, one) ==
    IF st.err # "" \/ (many = {} /\ one = {}) THEN st
    ELSE IF many # {}
    THEN ResolveBatches(types, tables,
           NextBatch(st, ResolveOneToMany(types, tables, st.dest,
                                          g.oneToMany[CHOOSE t \in many : TRUE])),
           g, many \ {CHOOSE t \in many : TRUE}, one)
    ELSE ResolveBatches(types, tables,
           NextBatch(st, ResolveOneToOne(types, tables, st.dest,
                                         g.oneToOne[CHOOSE t \in one : TRUE])),
           g, many, one \ {CHOOSE t \in one : TRUE})

AllDone(s, added) ==
    [err |-> s.err, dest |-> s.dest, set |-> TRUE, queries |-> s.queries, added |-> added]

\* finder.All, "Now all entities to load are gathered and we'll trigger SQL
\* queries"; g is what the gathering loop collected
AllResolve(types, tables, rows, g) ==
    IF g.err # ""
    THEN [err |-> g.err, dest |-> rows.dest, set |-> TRUE, queries |-> << >>,
          added |-> g.added]
    ELSE AllDone(ResolveBatches(types, tables,
                                [err |-> "", dest |-> rows.dest, queries |-> << >>],
                                g, DOMAIN g.oneToMany, DOMAIN g.oneToOne),
                 g.added)

\* finder.All, "Load associations"; rows is the outcome of the primary query
AllInclude(types, tables, name, includes, rows) ==
    IF rows.err # ""
    THEN [err |-> rows.err, dest |-> << >>, set |-> FALSE, queries |-> << >>,
          added |-> <<name>>]
    ELSE IF Len(includes) = 0
    THEN [err |-> "", dest |-> rows.dest, set |-> TRUE, queries |-> << >>,
          added |-> <<name>>]
    ELSE AllResolve(types, tables, rows,
                    Gather(types,
                           [err |-> "", oneToOne |-> EmptyMap, oneToMany |-> EmptyMap,
                            added |-> <<name>>],
                           name, rows.dest, includes, 1))

\* finder.All: the error returned ("panic" when the call does not return),
\* the destination after the call (set: whether it was assigned), the
\* secondary queries sent and the types handed to AddType
All(types, tables, name, elemIsPtr, arr, includes, q) ==
    AllInclude(types, tables, name, includes,
               AllRows(types, tables, name, elemIsPtr, arr, q))

\* ------------------------------------------- Single, Get, Scalar

SingleWithoutRowNil(prior, name) ==
    [err |-> "", e |-> prior, queries |-> << >>, added |-> <<name>>]

\* Single / getRequest.Do: "} else { return sql.ErrNoRows }"
SingleWithoutRow(prior, name) ==
    [err |-> "ErrNoRows", e |-> prior, queries |-> << >>, added |-> <<name>>]

\* Single and getRequest.Do, "if rows.Next()": the first row is scanned into
\* the caller's struct; r is what db.Query gave
ScanFirst(t, name, prior, r, columns) ==
    IF r.err # "" THEN [err |-> r.err, e |-> prior, queries |-> << >>, added |-> <<name>>]
    ELSE IF r.rows = << >> THEN SingleWithoutRow(prior, name)
    ELSE [err |-> "", e |-> ScanRow(t.ti, prior, r.rows[1], columns),
          queries |-> << >>, added |-> <<name>>]

\* Single and getRequest.Do from db.Query on, without the associations
ScanSingle(types, tables, name, prior, q) ==
    ScanFirst(types[name], name, prior, RunQuery(tables, q), ResultColumns(q))

\* "subQuery := Q(fkTableName).Where().Eq(fkColName, fk).Sql()"
OneToOneSubQuery(tn, cn, ti, assoc, e) ==
    EqQuery(tn.name, cn.name,
            IF assoc.ForeignKeyField \in DOMAIN ti.FieldInfos
            THEN ti.FieldInfos[assoc.ForeignKeyField].Type ELSE <<"struct">>,
            e[assoc.ForeignKeyField])

\* loadAssociations, the end of the 1:1 loop body: the field was set to a new
\* struct before the sub-query ran
LoadedOne(st, assoc, tn, q, sub) ==
    [ err     |-> sub.err,
      e       |-> [st.e EXCEPT ![assoc.FieldName] = Ptr(sub.e)],
      queries |-> Append(st.queries, q),
      added   |-> Append(st.added, tn.type) ]

\* loadAssociations, the body of the 1:1 loop
LoadOne(types, tables, st, ti, assoc, tn, cn) ==
    IF tn.err # "" THEN [st EXCEPT !.err = tn.err, !.added = Append(@, tn.type)]
    ELSE IF cn.err # "" THEN [st EXCEPT !.err = cn.err, !.added = Append(@, tn.type)]
    ELSE IF Kind(assoc.TargetType) # "ptr"
    THEN [st EXCEPT !.err = "a field marked with oneToOne must be a pointer",
                    !.added = Append(@, tn.type)]
    ELSE IF assoc.ForeignKeyField \notin DOMAIN st.e
    THEN [st EXCEPT !.err = "panic", !.added = Append(@, tn.type)]
    ELSE LoadedOne(st, assoc, tn, OneToOneSubQuery(tn, cn, ti, assoc, st.e),
                   ScanSingle(types, tables, tn.type, types[tn.type].zero,
                              OneToOneSubQuery(tn, cn, ti, assoc, st.e)))

RECURSIVE LoadOneToOne(_, _, _, _, _, _)
\* Session.loadAssociations, "Load 1:1 associations"
LoadOneToOne(types, tables, st, ti, includes, j) ==
    IF j > Len(includes) \/ st.err # "" THEN st
    ELSE IF includes[j] \notin DOMAIN ti.OneToOneInfos
    THEN LoadOneToOne(types, tables, st, ti, includes, j + 1)
    ELSE LoadOneToOne(types, tables,
           LoadOne(types, tables, st, ti, ti.OneToOneInfos[includes[j]],
                   AssocTableName(types, ti.OneToOneInfos[includes[j]].TargetType),
                   OneToOneColumnName(types, ti.OneToOneInfos[includes[j]])),
           ti, includes, j + 1)

\* "subQuery := Q(fkTableName).Where().Eq(fkColName, primaryKey).Sql()"
OneToManySubQuery(tn, cn, ti, e) ==
    EqQuery(tn.name, cn.name, GetPrimaryKey(ti).Type, e[GetPrimaryKey(ti).FieldName])

\* the slice All appends to: the field's content up to its capacity
FieldSlice(old) == IF old.k = "list" THEN old.items ELSE << >>

\* loadAssociations, the end of the 1:n loop body: All has written the field
LoadedMany(st, assoc, tn, q, sub) ==
    [ err     |-> sub.err,
      e       |-> IF sub.set
                  THEN [st.e EXCEPT ![assoc.FieldName] =
                          IF sub.dest = << >> /\ @.k = "nilslice"
                          THEN NilSlice ELSE List(sub.dest)]
                  ELSE st.e,
      queries |-> Append(st.queries, q),
      added   |-> Append(st.added, tn.type) ]

\* loadAssociations, the body of the 1:n loop
LoadMany(types, tables, st, ti, assoc, tn, cn) ==
    IF tn.err # "" THEN [st EXCEPT !.err = tn.err, !.added = Append(@, tn.type)]
    ELSE IF cn.err # "" THEN [st EXCEPT !.err = cn.err, !.added = Append(@, tn.type)]
    ELSE LoadedMany(st, assoc, tn, OneToManySubQuery(tn, cn, ti, st.e),
                    AllRows(types, tables, tn.type, Kind(assoc.ElemType) = "ptr",
                            FieldSlice(st.e[assoc.FieldName]),
                            OneToManySubQuery(tn, cn, ti, st.e)))

RECURSIVE LoadOneToMany(_, _, _, _, _, _)
\* Session.loadAssociations, "Load 1:n associations": All into the field
LoadOneToMany(types, tables, st, ti, includes, j) ==
    IF j > Len(includes) \/ st.err # "" THEN st
    ELSE IF includes[j] \notin DOMAIN ti.OneToManyInfos
    THEN LoadOneToMany(types, tables, st, ti, includes, j + 1)
    ELSE LoadOneToMany(types, tables,
           LoadMany(types, tables, st, ti, ti.OneToManyInfos[includes[j]],
                    AssocTableName(types, ti.OneToManyInfos[includes[j]].ElemType),
                    OneToManyColumnName(types, ti.OneToManyInfos[includes[j]])),
           ti, includes, j + 1)

\* Session.loadAssociations
LoadAssociations(types, tables, st, ti, includes) ==
    IF Len(includes) = 0 THEN st
    ELSE IF ~HasPrimaryKey(ti) THEN [st EXCEPT !.err = "ErrNoPrimaryKey"]
    ELSE LoadOneToMany(types, tables,
                       LoadOneToOne(types, tables, st, ti, includes, 1),
                       ti, includes, 1)

\* finder.Single after the scan: s is its outcome
SingleInclude(types, tables, s, ti, includes) ==
    IF s.err # "" THEN s ELSE LoadAssociations(types, tables, s, ti, includes)

\* finder.Single
Single(types, tables, name, prior, includes, q) ==
    IF types[name].err # ""
    THEN [err |-> types[name].err, e |-> prior, queries |-> << >>, added |-> <<name>>]
    ELSE SingleInclude(types, tables, ScanSingle(types, tables, name, prior, q),
                       types[name].ti, includes)

\* the statement getRequest.Do builds: Q(tableName).Where().Eq(pkCol, r.pk)
GetQuery(ti, pk) ==
    EqQuery(ti.TableName, GetPrimaryKey(ti).ColumnName, <<"int">>, pk)

\* getRequest.Do
Get(types, tables, name, pk, prior, includes) ==
    IF types[name].err # ""
    THEN [err |-> types[name].err, e |-> prior, queries |-> << >>, added |-> <<name>>]
    ELSE IF ~HasPrimaryKey(types[name].ti)
    THEN [err |-> "ErrNoPrimaryKey", e |-> prior, queries |-> << >>, added |-> <<name>>]
    ELSE Single(types, tables, name, prior, includes, GetQuery(types[name].ti, pk))

\* finder.Scalar after QueryRow: r is what the statement matched
ScanScalar(r, column, prior) ==
    IF r.err # "" THEN [err |-> r.err, value |-> prior]
    ELSE IF r.rows = << >> THEN [err |-> "ErrNoRows", value |-> prior]
    ELSE [err |-> "", value |-> r.rows[1][column]]

\* finder.Scalar: QueryRow(sql).Scan(&value), the named column being the
\* first of the result
Scalar(tables, q, column, prior) == ScanScalar(RunQuery(tables, q), column, prior)

\* ------------------------------------------------- parameter substitution

\* the spelling of the binding fields' names
FieldChars(name) ==
    CASE name = "Id"         -> <<"I", "d">>
      [] name = "IdCategory" -> <<"I", "d", "C", "a", "t", "e", "g", "o", "r", "y">>
      [] name = "Name"       -> <<"N", "a", "m", "e">>
      [] name = "Ignore"     -> <<"I", "g", "n", "o", "r", "e">>

\* ":"+paramName
Placeholder(name) == <<":">> \o FieldChars(name)

RECURSIVE Replace(_, _, _)
\* strings.Replace(s, old, new, -1) for a non-empty old: the occurrences of
\* old, found from left to right without overlap, become new
Replace(s, old, new) ==
    IF Len(s) < Len(old) THEN s
    ELSE IF SubSeq(s, 1, Len(old)) = old
    THEN new \o Replace(SubSeq(s, Len(old) + 1, Len(s)), old, new)
    ELSE <<Head(s)>> \o Replace(Tail(s), old, new)

\* the body of "for paramName, fi := range paramInfo.FieldInfos"
SubstituteField(sqlQuery, fi, value) ==
    IF fi.IsTransient THEN sqlQuery
    ELSE Replace(sqlQuery, Placeholder(fi.FieldName), Quote(fi.Type, value))

\* ------------------------------------------------------------------ bounds

MaxKey == 2            \* primary keys of the seeded rows are 1..MaxKey
MaxIncludes == 2       \* length of an Include list
MaxDescriptors == 3    \* typeInfo objects AddType may allocate in a run

Keys == 1..MaxKey

RECURSIVE SeqOfSet(_)
\* the elements of a set of numbers in ascending order
SeqOfSet(S) ==
    IF S = {} THEN << >>
    ELSE <<CHOOSE a \in S : \A b \in S : a <= b>>
         \o SeqOfSet(S \ {CHOOSE a \in S : \A b \in S : a <= b})

RECURSIVE SeqsUpTo(_, _)
\* the sequences over S of length at most n
SeqsUpTo(S, n) ==
    IF n = 0 THEN {<< >>}
    ELSE SeqsUpTo(S, n - 1) \cup {Append(t, a) : t \in SeqsUpTo(S, n - 1), a \in S}

NoTx == [open |-> FALSE, log |-> << >>]

NoRes == [op |-> "none"]

\* ------------------------------------------------ the registry, as a system
\* Callers register types in any order and with any of the shapes AddType
\* redirects to the base type.

RegTypes == {"user", "Order", "OrderItem", "Empty", "Hooks"}

Shapes(name) ==
    {<<name>>, <<"ptr", name>>, <<"slice", name>>, <<"slice", "ptr", name>>}

RegInit ==
    /\ typeCache = [n \in StructNames |-> 0]
    /\ heap = << >>
    /\ returned = [n \in StructNames |-> {}]
    /\ db = [tables |-> [t \in TableNames |-> {}], tx |-> NoTx,
             seq |-> [t \in TableNames |-> 1]]
    /\ res = NoRes
    /\ nq = 0

\* AddType returns r to the caller
AddTypeReturns(name, gotype, r) ==
    /\ Len(r.heap) <= MaxDescriptors
    /\ typeCache' = r.cache
    /\ heap' = r.heap
    /\ returned' = IF r.err = ""
                   THEN [returned EXCEPT ![name] = @ \cup {r.ref}]
                   ELSE returned
    /\ res' = [op |-> "AddType", type |-> gotype, ref |-> r.ref, err |-> r.err]
    /\ UNCHANGED <<db, nq>>

\* a caller registers a type: AddType(reflect.TypeOf(v))
RegAddType ==
    \E name \in RegTypes : \E gotype \in Shapes(name) :
       AddTypeReturns(name, gotype, AddType(typeCache, heap, gotype))

RegNext == RegAddType

SpecReg == RegInit /\ [][RegNext]_vars

\* ---------------------------------------------------- queries, as a system
\* A seeded database and one call of the finder against it; the call's
\* arguments and what it handed back are kept in res.

SeedOrders(S) == {[id |-> i, ref_id |-> 0] : i \in S}

\* item i belongs to order f[i] and was returned on the order after it
SeedItems(f) ==
    {[id |-> i, order_id |-> f[i], return_id |-> (f[i] % MaxKey) + 1] : i \in DOMAIN f}

SeedParcels == {[id |-> i, shipment_no |-> i] : i \in Keys}

\* the shipments carry a carrier id that is not their key
SeedShipments == {[no |-> i, id |-> (i % MaxKey) + 1] : i \in Keys}

SeedUsers == {[id |-> i, name |-> <<"a">>] : i \in Keys}

ItemOwners == {[i \in Keys |-> o] : o \in Keys} \cup {[i \in Keys |-> i]}

SeedTables(S, f) ==
    [t \in TableNames |->
       CASE t = "users"       -> SeedUsers
         [] t = "orders"      -> SeedOrders(S)
         [] t = "order_items" -> SeedItems(f)
         [] t = "parcels"     -> SeedParcels
         [] t = "shipments"   -> SeedShipments]

QueryInit ==
    /\ typeCache = [n \in StructNames |-> 0]
    /\ heap = << >>
    /\ returned = [n \in StructNames |-> {}]
    /\ \E S \in SUBSET Keys : \E f \in ItemOwners :
          db = [ tables |-> SeedTables(S, f), tx |-> NoTx,
                 seq |-> [t \in TableNames |-> MaxKey + 1] ]
    /\ res = NoRes
    /\ nq = 0

QueryTypes == {"Order", "OrderItem", "Parcel", "Ledger", "userWithoutPrimaryKeyTag"}

AssocNames(ti) == DOMAIN ti.OneToOneInfos \cup DOMAIN ti.OneToManyInfos

IncludeLists(ti) == SeqsUpTo(AssocNames(ti) \cup {"Unknown"}, MaxIncludes)

\* a struct that the caller has used before: its numbers are not zero
UsedOf(fields, z) ==
    [n \in DOMAIN z |->
       IF Kind((CHOOSE f \in Range(fields) : f.Name = n).Type) \in IntKinds
       THEN MaxKey ELSE z[n]]

\* the structs a caller passes to Single and Get
PriorStructs(z, used) == {z, used}

\* the caller's slice before All, up to its capacity
PriorSlices(used, elemIsPtr) ==
    IF elemIsPtr THEN {<< >>, <<Nil>>, <<Ptr(used)>>}
    ELSE {<< >>, <<Struct(used)>>}

\* the free-form SQL of the caller: select * from <table> where <key> in S
PrimaryQuery(ti, S) ==
    InQuery(ti.TableName, KeyColumn(ti.TableName), <<"int64">>, SeqOfSet(S))

RECURSIVE Register(_, _, _, _)
\* the AddType calls of one finder call, in their order
Register(c, h, names, i) ==
    IF i > Len(names) THEN [cache |-> c, heap |-> h]
    ELSE Register(AddType(c, h, <<names[i]>>).cache, AddType(c, h, <<names[i]>>).heap,
                  names, i + 1)

\* a finder call returns: res holds what the caller passed and sees
Returns(call, reg) ==
    /\ res' = call
    /\ typeCache' = reg.cache
    /\ heap' = reg.heap
    /\ UNCHANGED <<returned, db, nq>>

AllReturns(a, r) ==
    Returns([ op |-> "All", type |-> a.type, includes |-> a.includes,
              elemIsPtr |-> a.elemIsPtr, arr |-> a.arr, q |-> a.q,
              matched |-> a.matched, ran |-> TRUE, err |-> r.err,
              dest |-> IF r.set THEN r.dest ELSE a.arr,
              queries |-> r.queries ],
            Register(typeCache, heap, r.added, 1))

AllCall(types, a) ==
    AllReturns(a, All(types, db.tables, a.type, a.elemIsPtr, a.arr, a.includes, a.q))

AllAny(types) ==
    \E name \in QueryTypes : \E S \in SUBSET Keys :
    \E includes \in IncludeLists(types[name].ti) : \E elemIsPtr \in BOOLEAN :
    \E arr \in PriorSlices(UsedOf(StructFields(name), types[name].zero), elemIsPtr) :
       AllCall(types,
               [ type |-> name, includes |-> includes, elemIsPtr |-> elemIsPtr,
                 arr |-> arr, q |-> PrimaryQuery(types[name].ti, S),
                 matched |-> Len(RunQuery(db.tables, PrimaryQuery(types[name].ti, S)).rows) ])

\* session.Find(sql, nil).Include(...).All(&results)
QAll == res = NoRes /\ AllAny(TypeTable)

SingleReturns(a, r) ==
    Returns([ op |-> a.op, type |-> a.type, includes |-> a.includes,
              prior |-> a.prior, q |-> a.q, matched |-> a.matched, ran |-> a.ran,
              err |-> r.err, e |-> r.e, queries |-> r.queries ],
            Register(typeCache, heap, r.added, 1))

SingleCall(types, a) ==
    SingleReturns(a, Single(types, db.tables, a.type, a.prior, a.includes, a.q))

SingleAny(types) ==
    \E name \in QueryTypes : \E S \in SUBSET Keys :
    \E includes \in IncludeLists(types[name].ti) :
    \E prior \in PriorStructs(types[name].zero,
                              UsedOf(StructFields(name), types[name].zero)) :
       SingleCall(types,
                  [ op |-> "Single", type |-> name, includes |-> includes,
                    prior |-> prior, q |-> PrimaryQuery(types[name].ti, S), ran |-> TRUE,
                    matched |-> Len(RunQuery(db.tables,
                                             PrimaryQuery(types[name].ti, S)).rows) ])

\* session.Find(sql, nil).Include(...).Single(&result)
QSingle == res = NoRes /\ SingleAny(TypeTable)

\* what the statement of Get matches, when Get gets as far as sending it
GetArgs(ti, name, pk, includes, prior) ==
    IF HasPrimaryKey(ti)
    THEN [ op |-> "Get", type |-> name, includes |-> includes, prior |-> prior,
           q |-> GetQuery(ti, pk), ran |-> TRUE,
           matched |-> Len(RunQuery(db.tables, GetQuery(ti, pk)).rows) ]
    ELSE [ op |-> "Get", type |-> name, includes |-> includes, prior |-> prior,
           q |-> pk, ran |-> FALSE, matched |-> 0 ]

GetCall(types, name, pk, includes, prior) ==
    SingleReturns(GetArgs(types[name].ti, name, pk, includes, prior),
                  Get(types, db.tables, name, pk, prior, includes))

GetAny(types) ==
    \E name \in QueryTypes : \E pk \in 1..(MaxKey + 1) :
    \E includes \in IncludeLists(types[name].ti) :
    \E prior \in PriorStructs(types[name].zero,
                              UsedOf(StructFields(name), types[name].zero)) :
       GetCall(types, name, pk, includes, prior)

\* session.Get(id).Include(...).Do(&result)
QGet == res = NoRes /\ GetAny(TypeTable)

ScalarReturns(a, r) ==
    /\ res' = [ op |-> "Scalar", type |-> a.type, q |-> a.q, matched |-> a.matched,
                ran |-> TRUE, prior |-> a.prior, err |-> r.err, value |-> r.value ]
    /\ UNCHANGED <<typeCache, heap, returned, db, nq>>

ScalarCall(a) ==
    ScalarReturns(a, Scalar(db.tables, a.q, KeyColumn(a.q.table), a.prior))

ScalarAny(types) ==
    \E name \in QueryTypes : \E S \in SUBSET Keys : \E prior \in {0, MaxKey} :
       ScalarCall([ type |-> name, prior |-> prior, q |-> PrimaryQuery(types[name].ti, S),
                    matched |-> Len(RunQuery(db.tables,
                                             PrimaryQuery(types[name].ti, S)).rows) ])

\* session.Find(sql, nil).Scalar(&value)
QScalar == res = NoRes /\ ScalarAny(TypeTable)

QueryNext == QAll \/ QSingle \/ QGet \/ QScalar

SpecQuery == QueryInit /\ [][QueryNext]_vars

\* ------------------------------------------- properties of the finder

\* a finder call has returned (a panic does not return)

IncludedOneToMany(r) ==
    Range(r.includes) \cap DOMAIN TypeTable[r.type].ti.OneToManyInfos

IncludedOneToOne(r) ==
    Range(r.includes) \cap DOMAIN TypeTable[r.type].ti.OneToOneInfos

Included(r) == IncludedOneToMany(r) \cup IncludedOneToOne(r)

\* the far type of association a of the result type of call r
FarType(r, a) ==
    IF a \in DOMAIN TypeTable[r.type].ti.OneToManyInfos
    THEN BaseType(TypeTable[r.type].ti.OneToManyInfos[a].ElemType)[1]
    ELSE BaseType(TypeTable[r.type].ti.OneToOneInfos[a].TargetType)[1]

FarTable(r, a) == TypeTable[FarType(r, a)].ti.TableName

FarTables(r) == {FarTable(r, a) : a \in Included(r)}

QueriesOn(r, t) == {i \in DOMAIN r.queries : r.queries[i].table = t}

NoDuplicates(s) == \A i, j \in DOMAIN s : s[i] = s[j] => i = j

\* the key of parent e that association a is resolved by: the primary key
\* for one-to-many, the local foreign key for one-to-one
ParentKey(r, e, a) ==
    IF a \in DOMAIN TypeTable[r.type].ti.OneToManyInfos
    THEN e[GetPrimaryKey(TypeTable[r.type].ti).FieldName]
    ELSE e[TypeTable[r.type].ti.OneToOneInfos[a].ForeignKeyField]

\* C2: for every N >= 1, an All that returns without failure, with a requested
\* association over N parent rows, sends exactly one secondary query per far
\* table, an IN query that lists every parent's key and lists no key twice;
\* and no All, whatever its outcome, sends two queries to one far table.
C2_OneQueryPerFarTable ==
    /\ res.op = "All" => \A t \in TableNames : Cardinality(QueriesOn(res, t)) <= 1
    /\ (res.op = "All" /\ res.err = "" /\ Len(res.dest) >= 1 /\ Included(res) # {})
       => /\ Len(res.queries) = Cardinality(FarTables(res))
          /\ \A t \in FarTables(res) : Cardinality(QueriesOn(res, t)) = 1
          /\ \A i \in DOMAIN res.queries : NoDuplicates(res.queries[i].values)
          /\ \A k \in DOMAIN res.dest : \A a \in Included(res) :
                \E i \in QueriesOn(res, FarTable(res, a)) :
                   Quote(<<"int64">>, ParentKey(res, res.dest[k].e, a))
                      \in Range(res.queries[i].values)

\* two parents with the same key were resolved by one query with one key
C2_Witness ==
    /\ res.op = "All" /\ res.err = "" /\ Included(res) # {}
    /\ Len(res.dest) = 2
    /\ Len(res.queries) = 1
    /\ Len(res.queries[1].values) = 1

\* the children the database holds for parent e under one-to-many a
ChildRows(r, e, a) ==
    LET info == TypeTable[r.type].ti.OneToManyInfos[a]
        far  == TypeTable[FarType(r, a)]
        col  == far.ti.FieldInfos[info.ForeignKeyField].ColumnName
    IN  {Ptr(ScanRow(far.ti, far.zero, row, Columns(far.ti.TableName))) :
           row \in {x \in db.tables[far.ti.TableName] :
                      x[col] = e[GetPrimaryKey(TypeTable[r.type].ti).FieldName]}}

\* C3: after a successful All with an included one-to-many association every
\* parent's association field holds exactly the child rows whose foreign key
\* equals the parent's primary key, each once; without such a child it holds
\* an empty list that is not nil.
C3_ChildrenOfEachParent ==
    (res.op = "All" /\ res.err = "")
    => \A k \in DOMAIN res.dest : \A a \in IncludedOneToMany(res) :
          /\ res.dest[k].e[a].k = "list"
          /\ Range(res.dest[k].e[a].items) = ChildRows(res, res.dest[k].e, a)
          /\ Len(res.dest[k].e[a].items) = Cardinality(ChildRows(res, res.dest[k].e, a))

\* the far rows whose primary key equals the foreign key of parent e under
\* one-to-one a
FarRows(r, e, a) ==
    LET info == TypeTable[r.type].ti.OneToOneInfos[a]
        far  == TypeTable[FarType(r, a)]
    IN  {Ptr(ScanRow(far.ti, far.zero, row, Columns(far.ti.TableName))) :
           row \in {x \in db.tables[far.ti.TableName] :
                      x[GetPrimaryKey(far.ti).ColumnName] = e[info.ForeignKeyField]}}

\* C4: after a successful All with an included one-to-one association every
\* parent's association field points to the far row whose primary key, as
\* declared on the far type, equals the parent's foreign key.
C4_FarRowOfEachParent ==
    (res.op = "All" /\ res.err = "")
    => \A k \in DOMAIN res.dest : \A a \in IncludedOneToOne(res) :
          FarRows(res, res.dest[k].e, a) # {}
             => res.dest[k].e[a] \in FarRows(res, res.dest[k].e, a)

\* ------------------------------------------- properties of the registry

\* C5: for any struct type, AddType called with T, *T, []T or []*T resolves
\* to one shared descriptor, and every repeated call returns the identical
\* cached descriptor: all the calls for one type return one reference.
C5_OneDescriptorPerType ==
    \A n \in StructNames : Cardinality(returned[n]) <= 1

\* ------------------------------------- parameter substitution, as a system
\* session.Find(sql, param) and then the substitution that Single, All and
\* Scalar share, one field of the binding per step in the order of Go's map
\* iteration, up to db.Query(sqlQuery).

MaxPieces == 2         \* pieces of text the caller's SQL is made of

Pieces ==
    {Placeholder("Id"), Placeholder("IdCategory"), Placeholder("Name"),
     Placeholder("Ignore"), <<"=">>}

RECURSIVE Concat(_)
Concat(ss) == IF ss = << >> THEN << >> ELSE Head(ss) \o Concat(Tail(ss))

SqlTexts == {Concat(ss) : ss \in SeqsUpTo(Pieces, MaxPieces) \ {<< >>}}

\* the values a caller binds: a plain name, a name with a quote in it, and a
\* name that reads like a placeholder
NameValues == {<<"a">>, <<"'">>, Placeholder("Id")}

Bindings ==
    {[Id |-> 1, IdCategory |-> 2, Name |-> v, Ignore |-> <<"z">>] : v \in NameValues}

SubstInit ==
    /\ typeCache = [n \in StructNames |-> 0]
    /\ heap = << >>
    /\ returned = [n \in StructNames |-> {}]
    /\ db = [tables |-> [t \in TableNames |-> {}], tx |-> NoTx,
             seq |-> [t \in TableNames |-> 1]]
    /\ nq = 0
    /\ \E text \in SqlTexts : \E param \in Bindings \cup {Nil} :
          res = [ op |-> "Find", query |-> text, param |-> param, sqlQuery |-> text,
                  stage |-> "new", todo |-> {}, sent |-> << >> ]

\* "paramInfo, err := AddType(paramValue.Type())": r is what AddType returns
SubstRegistered(r) ==
    /\ typeCache' = r.cache
    /\ heap' = r.heap
    /\ res' = IF r.err # ""
              THEN [res EXCEPT !.stage = "failed"]
              ELSE [res EXCEPT !.stage = "loop",
                               !.todo = DOMAIN r.heap[r.ref].FieldInfos]
    /\ UNCHANGED <<returned, db, nq>>

\* "if q.param != nil {": with a binding its type is registered
SubstBegin ==
    /\ res.op = "Find" /\ res.stage = "new"
    /\ IF res.param = Nil
       THEN /\ res' = [res EXCEPT !.stage = "loop"]
            /\ UNCHANGED <<typeCache, heap, returned, db, nq>>
       ELSE SubstRegistered(AddType(typeCache, heap, <<"searchQuery">>))

\* one iteration of "for paramName, fi := range paramInfo.FieldInfos"
SubstVisit ==
    /\ res.op = "Find" /\ res.stage = "loop"
    /\ \E n \in res.todo :
          res' = [res EXCEPT
                    !.sqlQuery = SubstituteField(@, heap[typeCache["searchQuery"]].FieldInfos[n],
                                                 res.param[n]),
                    !.todo = @ \ {n}]
    /\ UNCHANGED <<typeCache, heap, returned, db, nq>>

\* "rows, err := q.db.Query(sqlQuery)"
SubstQuery ==
    /\ res.op = "Find" /\ res.stage = "loop" /\ res.todo = {}
    /\ res' = [res EXCEPT !.stage = "sent", !.sent = <<res.sqlQuery>>]
    /\ UNCHANGED <<typeCache, heap, returned, db, nq>>

SubstNext == SubstBegin \/ SubstVisit \/ SubstQuery

SpecSubst == SubstInit /\ [][SubstNext]_vars

\* the non-transient binding fields whose placeholder stands at the head of s
PlaceholdersAt(s) ==
    {n \in DOMAIN TypeTable["searchQuery"].ti.FieldInfos :
       /\ ~TypeTable["searchQuery"].ti.FieldInfos[n].IsTransient
       /\ Len(s) >= Len(Placeholder(n))
       /\ SubSeq(s, 1, Len(Placeholder(n))) = Placeholder(n)}

RECURSIVE Bound(_, _)
\* the SQL text with every placeholder of the original text replaced by the
\* quoted literal of its field; where two names fit, the longer one is meant
Bound(s, param) ==
    IF s = << >> THEN << >>
    ELSE IF PlaceholdersAt(s) = {} THEN <<Head(s)>> \o Bound(Tail(s), param)
    ELSE LET n == CHOOSE m \in PlaceholdersAt(s) :
                     \A o \in PlaceholdersAt(s) : Len(FieldChars(o)) <= Len(FieldChars(m))
         IN  Quote(TypeTable["searchQuery"].ti.FieldInfos[n].Type, param[n])
                \o Bound(SubSeq(s, Len(Placeholder(n)) + 1, Len(s)), param)

\* C6: with a binding, the SQL that is executed is the caller's text with
\* every occurrence of :<FieldName> of every non-transient field replaced by
\* the quoted literal of that field's value, and nothing else changed; with a
\* nil binding the text is executed unchanged.
C6_EveryPlaceholderReplaced ==
    (res.op = "Find" /\ res.stage = "sent")
    => res.sent[1] = IF res.param = Nil THEN res.query ELSE Bound(res.query, res.param)

\* ------------------------------------------------ the database, statements
\* A statement is kept by its parts, the literals as the text Quote made of
\* them. The database parses the literals back. A transaction keeps the
\* statements it ran; they reach the tables when it commits.

NoSql == [kind |-> "none"]

\* what the column of a new row holds when the statement does not name it
DefaultOf(c) == IF c = "name" THEN << >> ELSE 0

\* the AUTO_INCREMENT column of a table, "" where it has none
AutoIncrementColumn(table) == IF table = "shipments" THEN "" ELSE "id"

\* the value the statement gives column c
ValueOf(cnames, cvals, c) == ParseLiteral(cvals[IndexOf(cnames, c, 1)])

\* the row "INSERT INTO table (cnames) VALUES (cvals)" adds when the next
\* AUTO_INCREMENT value is id
RowOf(table, cnames, cvals, id) ==
    [c \in Columns(table) |->
       IF c \in Range(cnames) THEN ValueOf(cnames, cvals, c)
       ELSE IF c = AutoIncrementColumn(table) THEN id
       ELSE DefaultOf(c)]

\* the statement as the database has understood it
Resolved(q, seq) ==
    CASE q.kind = "INSERT" ->
           [kind |-> "INSERT", table |-> q.table,
            row |-> RowOf(q.table, q.cnames, q.cvals, seq[q.table]),
            auto |-> AutoIncrementColumn(q.table) # ""
                     /\ AutoIncrementColumn(q.table) \notin Range(q.cnames)]
      [] q.kind = "UPDATE" ->
           [kind |-> "UPDATE", table |-> q.table,
            set |-> [c \in Range(q.cnames) |-> ValueOf(q.cnames, q.cvals, c)],
            column |-> q.column, value |-> ParseLiteral(q.pkval)]
      [] q.kind = "DELETE" ->
           [kind |-> "DELETE", table |-> q.table,
            column |-> q.column, value |-> ParseLiteral(q.pkval)]

\* a row after "SET c=v, ..."
Updated(r, set) == [c \in DOMAIN r |-> IF c \in DOMAIN set THEN set[c] ELSE r[c]]

\* the tables after statement s
ApplyStmt(tables, s) ==
    CASE s.kind = "INSERT" ->
           [tables EXCEPT ![s.table] =
              IF \E r \in @ : r[KeyColumn(s.table)] = s.row[KeyColumn(s.table)]
              THEN @ ELSE @ \cup {s.row}]
      [] s.kind = "UPDATE" ->
           [tables EXCEPT ![s.table] =
              {IF r[s.column] = s.value THEN Updated(r, s.set) ELSE r : r \in @}]
      [] s.kind = "DELETE" ->
           [tables EXCEPT ![s.table] = {r \in @ : r[s.column] # s.value}]

RECURSIVE ApplyAll(_, _, _)
ApplyAll(tables, log, i) ==
    IF i > Len(log) THEN tables
    ELSE ApplyAll(ApplyStmt(tables, log[i]), log, i + 1)

\* the tables as the open transaction sees them
View(d) == ApplyAll(d.tables, d.tx.log, 1)

\* the sequence of a table after an insert took its value
Advanced(seq, s) ==
    IF s.kind = "INSERT" /\ s.auto THEN [seq EXCEPT ![s.table] = @ + 1] ELSE seq

\* a statement fails on a duplicate key
Rejected(tables, s) ==
    /\ s.kind = "INSERT"
    /\ \E r \in tables[s.table] : r[KeyColumn(s.table)] = s.row[KeyColumn(s.table)]

\* sql.Result.LastInsertId
LastInsertId(s) ==
    IF s.kind = "INSERT" /\ s.auto THEN s.row[AutoIncrementColumn(s.table)] ELSE 0

DbExecResolved(d, s) ==
    IF Rejected(d.tables, s)
    THEN [err |-> "Error 1062", db |-> d, lastId |-> 0]
    ELSE [err |-> "", lastId |-> LastInsertId(s),
          db |-> [d EXCEPT !.tables = ApplyStmt(@, s), !.seq = Advanced(@, s)]]

\* sql.DB.Exec: the statement runs and is committed at once
DbExec(d, q) == DbExecResolved(d, Resolved(q, d.seq))

TxExecResolved(d, s, view) ==
    IF Rejected(view, s)
    THEN [err |-> "Error 1062", db |-> d, lastId |-> 0]
    ELSE [err |-> "", lastId |-> LastInsertId(s),
          db |-> [d EXCEPT !.tx.log = Append(@, s), !.seq = Advanced(@, s)]]

\* sql.Tx.Exec: the statement runs in the transaction
TxExec(d, q) == TxExecResolved(d, Resolved(q, d.seq), View(d))

\* ------------------------------------------------------------------ Insert

\* what a writer hands back: the error, the registry, the database, the
\* caller's entity and the statement that was sent
Done(err, r, d, e, sent) ==
    [err |-> err, cache |-> r.cache, heap |-> r.heap, db |-> d, e |-> e, sent |-> sent]

\* generateInsertSql, the body of "for _, cname := range ti.ColumnNames" with
\* the auto-increment column kept in the statement
InsertColumnAlways(fi, e, acc) ==
    [cnames |-> Append(acc.cnames, fi.ColumnName),
     cvals |-> Append(acc.cvals, Quote(fi.Type, e[fi.FieldName]))]

\* generateInsertSql, the body of "for _, cname := range ti.ColumnNames"
InsertColumn(fi, e, acc) ==
    IF ~fi.IsAutoIncrement \/ fi.IsTransient
    THEN [cnames |-> Append(acc.cnames, fi.ColumnName),
          cvals |-> Append(acc.cvals, Quote(fi.Type, e[fi.FieldName]))]
    ELSE acc

RECURSIVE InsertColumns(_, _, _, _)
InsertColumns(ti, e, j, acc) ==
    IF j > Len(ti.ColumnNames) THEN acc
    ELSE IF ti.ColumnNames[j] \in DOMAIN ti.ColumnInfos
    THEN InsertColumns(ti, e, j + 1, InsertColumn(ti.ColumnInfos[ti.ColumnNames[j]], e, acc))
    ELSE InsertColumns(ti, e, j + 1, acc)

\* fmt.Sprintf("INSERT INTO %s (%s) VALUES (%s)", ...)
InsertSql(table, acc) ==
    [err |-> "",
     sql |-> [kind |-> "INSERT", table |-> table, cnames |-> acc.cnames, cvals |-> acc.cvals]]

\* Session.generateInsertSql
generateInsertSql(ti, e) ==
    IF ti.TableName = "" THEN [err |-> "ErrNoTableName", sql |-> NoSql]
    ELSE InsertSql(ti.TableName, InsertColumns(ti, e, 1, [cnames |-> << >>, cvals |-> << >>]))

\* Session.exec with the transaction ignored
execOnDb(d, inTx, q) == DbExec(d, q)

\* Session.exec
exec(d, inTx, q) == IF ~inTx THEN DbExec(d, q) ELSE TxExec(d, q)

\* Dialect.SupportsLastInsertId of the database behind the handle
SupportsLastInsertId(dialect) == dialect # "PostgreSQL"

\* sql.Result.LastInsertId of the result x of an executed statement: the
\* driver of a database without last-insert ids returns an error
ResultLastInsertId(x, dialect) ==
    IF SupportsLastInsertId(dialect) THEN [err |-> "", id |-> x.lastId]
    ELSE [err |-> "no LastInsertId available", id |-> 0]

\* insert: "newId, err := res.LastInsertId(); if err != nil { return err }"
InsertIdRead(r, fi, q, x, e, last) ==
    IF last.err # "" THEN Done(last.err, r, x.db, e, <<q>>)
    ELSE Done("", r, x.db, [e EXCEPT ![fi.FieldName] = last.id], <<q>>)

\* insert: "Set last insert id if the type has an autoincrement column"
InsertExecuted(r, ti, q, x, e, dialect) ==
    IF x.err # "" THEN Done(x.err, r, x.db, e, <<q>>)
    ELSE IF HasAutoIncrement(ti)
    THEN InsertIdRead(r, GetAutoIncrement(ti), q, x, e, ResultLastInsertId(x, dialect))
    ELSE Done("", r, x.db, e, <<q>>)

\* insert: "Execute SQL query and return its result"
InsertGenerated(r, ti, g, d, e, inTx, dialect) ==
    IF g.err # "" THEN Done(g.err, r, d, e, << >>)
    ELSE InsertExecuted(r, ti, g.sql, exec(d, inTx, g.sql), e, dialect)

\* insert: "Generate SQL query for insert"
InsertTyped(r, d, e, inTx, dialect) ==
    IF r.err # "" THEN Done(r.err, r, d, e, << >>)
    ELSE InsertGenerated(r, r.heap[r.ref], generateInsertSql(r.heap[r.ref], e), d, e, inTx,
                         dialect)

\* Session.insert(entity, tx); the entity is e, passed by pointer or by
\* value, the handle of the session is one of a database of the dialect
insert(c, h, d, name, e, isPtr, inTx, dialect) ==
    IF ~isPtr
    THEN Done("entity must be a pointer to a struct", [cache |-> c, heap |-> h], d, e, << >>)
    ELSE InsertTyped(AddType(c, h, <<name>>), d, e, inTx, dialect)

\* ------------------------------------------------------- Update and Delete

\* generateUpdateSql, the body of "for _, cname := range ti.ColumnNames"
UpdateColumn(fi, e, acc) ==
    IF ~fi.IsPrimaryKey \/ fi.IsTransient
    THEN [cnames |-> Append(acc.cnames, fi.ColumnName),
          cvals |-> Append(acc.cvals, Quote(fi.Type, e[fi.FieldName]))]
    ELSE acc

RECURSIVE UpdateColumns(_, _, _, _)
UpdateColumns(ti, e, j, acc) ==
    IF j > Len(ti.ColumnNames) THEN acc
    ELSE IF ti.ColumnNames[j] \in DOMAIN ti.ColumnInfos
    THEN UpdateColumns(ti, e, j + 1, UpdateColumn(ti.ColumnInfos[ti.ColumnNames[j]], e, acc))
    ELSE UpdateColumns(ti, e, j + 1, acc)

\* "pkval := field.Interface()" ... "Quote(pkval)", with another field read
PkValueOfId(pk, e) == Quote(<<"int64">>, e.Id + 1)

\* "pkval := field.Interface()" ... "Quote(pkval)"
PkValue(pk, e) == Quote(pk.Type, e[pk.FieldName])

\* fmt.Sprintf("UPDATE %s SET %s WHERE %s=%s", ...)
UpdateSql(table, acc, pk, e) ==
    [err |-> "",
     sql |-> [kind |-> "UPDATE", table |-> table, cnames |-> acc.cnames,
              cvals |-> acc.cvals, column |-> pk.ColumnName, pkval |-> PkValue(pk, e)]]

\* Session.generateUpdateSql with one error for both missing tags
generateUpdateSqlOneError(ti, e) ==
    IF ti.TableName = "" THEN [err |-> "ErrNoPrimaryKey", sql |-> NoSql]
    ELSE IF ~HasPrimaryKey(ti) THEN [err |-> "ErrNoPrimaryKey", sql |-> NoSql]
    ELSE UpdateSql(ti.TableName,
                   UpdateColumns(ti, e, 1, [cnames |-> << >>, cvals |-> << >>]),
                   GetPrimaryKey(ti), e)

\* Session.generateUpdateSql
generateUpdateSql(ti, e) ==
    IF ti.TableName = "" THEN [err |-> "ErrNoTableName", sql |-> NoSql]
    ELSE IF ~HasPrimaryKey(ti) THEN [err |-> "ErrNoPrimaryKey", sql |-> NoSql]
    ELSE UpdateSql(ti.TableName,
                   UpdateColumns(ti, e, 1, [cnames |-> << >>, cvals |-> << >>]),
                   GetPrimaryKey(ti), e)

\* fmt.Sprintf("DELETE FROM %s WHERE %s=%s", ...)
DeleteSql(table, pk, e) ==
    [err |-> "",
     sql |-> [kind |-> "DELETE", table |-> table,
              column |-> pk.ColumnName, pkval |-> PkValue(pk, e)]]

\* Session.generateDeleteSql
generateDeleteSql(ti, e) ==
    IF ti.TableName = "" THEN [err |-> "ErrNoTableName", sql |-> NoSql]
    ELSE IF ~HasPrimaryKey(ti) THEN [err |-> "ErrNoPrimaryKey", sql |-> NoSql]
    ELSE DeleteSql(ti.TableName, GetPrimaryKey(ti), e)

\* update, delete: the statement has run
Executed(r, q, x, e) == Done(x.err, r, x.db, e, <<q>>)

\* update, delete: "if tx == nil { ... s.db.Exec(sql) } else { ... tx.Exec(sql) }"
Generated(r, g, d, e, inTx) ==
    IF g.err # "" THEN Done(g.err, r, d, e, << >>)
    ELSE IF ~inTx THEN Executed(r, g.sql, DbExec(d, g.sql), e)
    ELSE Executed(r, g.sql, TxExec(d, g.sql), e)

\* update: "Generate SQL query for update"
UpdateTyped(r, d, e, inTx) ==
    IF r.err # "" THEN Done(r.err, r, d, e, << >>)
    ELSE Generated(r, generateUpdateSql(r.heap[r.ref], e), d, e, inTx)

\* "gotype := entityv.Type(); if entityIsPtr { gotype = entityv.Type().Elem() }"
EntityType(name, isPtr) == IF isPtr THEN Elem(<<"ptr", name>>) ELSE <<name>>

\* Session.update(entity, tx)
update(c, h, d, name, e, isPtr, inTx) ==
    UpdateTyped(AddType(c, h, EntityType(name, isPtr)), d, e, inTx)

\* delete: "Generate SQL query for delete"
DeleteTyped(r, d, e, inTx) ==
    IF r.err # "" THEN Done(r.err, r, d, e, << >>)
    ELSE Generated(r, generateDeleteSql(r.heap[r.ref], e), d, e, inTx)

\* Session.delete(entity, tx)
delete(c, h, d, name, e, isPtr, inTx) ==
    DeleteTyped(AddType(c, h, EntityType(name, isPtr)), d, e, inTx)

\* ------------------------------------------------- the writers, as a system
\* A caller inserts, updates and deletes entities, with or without the
\* transaction it has begun, and commits or rolls back.

MaxCalls == 2          \* Insert, Update and Delete calls in a run

WriteTypes == {"user", "userWithoutTableNameTag", "userWithoutPrimaryKeyTag", "Shipment"}

WriteNames == {<<"b">>, <<"'">>}

\* the entities a caller passes
Entities(name) ==
    IF name = "Shipment" THEN {[No |-> n, Id |-> i] : n \in 0..MaxKey, i \in {0, 7}}
    ELSE IF name = "user"
    THEN {[Id |-> i, Name |-> v, Ignored |-> <<"z">>] : i \in 0..MaxKey, v \in WriteNames}
    ELSE {[Id |-> i, Name |-> v] : i \in 0..MaxKey, v \in WriteNames}

WriteInit ==
    /\ typeCache = [n \in StructNames |-> 0]
    /\ heap = << >>
    /\ returned = [n \in StructNames |-> {}]
    /\ db = [ tables |-> [t \in TableNames |->
                            IF t = "users" THEN SeedUsers
                            ELSE IF t = "shipments" THEN SeedShipments ELSE {}],
              tx |-> NoTx,
              seq |-> [t \in TableNames |-> MaxKey + 1] ]
    /\ res = NoRes
    /\ nq = 0

\* a writer returns: res holds what the caller passed and what it got back
WriteReturns(op, name, e, isPtr, inTx, o) ==
    /\ res' = [op |-> op, type |-> name, entity |-> e, isPtr |-> isPtr, inTx |-> inTx,
               before |-> db, err |-> o.err, e |-> o.e, sent |-> o.sent]
    /\ db' = o.db
    /\ typeCache' = o.cache
    /\ heap' = o.heap
    /\ nq' = nq + 1
    /\ UNCHANGED returned

\* the transaction a caller may pass: none, or the one that is open
TxChoices == IF db.tx.open THEN BOOLEAN ELSE {FALSE}

WInsert ==
    /\ nq < MaxCalls
    /\ \E name \in WriteTypes : \E e \in Entities(name) : \E isPtr \in BOOLEAN :
       \E inTx \in TxChoices :
          WriteReturns("Insert", name, e, isPtr, inTx,
                       insert(typeCache, heap, db, name, e, isPtr, inTx, "MySQL"))

WUpdate ==
    /\ nq < MaxCalls
    /\ \E name \in WriteTypes : \E e \in Entities(name) : \E isPtr \in BOOLEAN :
       \E inTx \in TxChoices :
          WriteReturns("Update", name, e, isPtr, inTx,
                       update(typeCache, heap, db, name, e, isPtr, inTx))

WDelete ==
    /\ nq < MaxCalls
    /\ \E name \in WriteTypes : \E e \in Entities(name) : \E isPtr \in BOOLEAN :
       \E inTx \in TxChoices :
          WriteReturns("Delete", name, e, isPtr, inTx,
                       delete(typeCache, heap, db, name, e, isPtr, inTx))

\* sql.DB.Begin
Begin ==
    /\ ~db.tx.open
    /\ db' = [db EXCEPT !.tx = [open |-> TRUE, log |-> << >>]]
    /\ res' = [op |-> "Begin", before |-> db]
    /\ UNCHANGED <<typeCache, heap, returned, nq>>

\* sql.Tx.Commit
Commit ==
    /\ db.tx.open
    /\ db' = [db EXCEPT !.tables = View(db), !.tx = NoTx]
    /\ res' = [op |-> "Commit", before |-> db]
    /\ UNCHANGED <<typeCache, heap, returned, nq>>

\* sql.Tx.Rollback
Rollback ==
    /\ db.tx.open
    /\ db' = [db EXCEPT !.tx = NoTx]
    /\ res' = [op |-> "Rollback", before |-> db]
    /\ UNCHANGED <<typeCache, heap, returned, nq>>

WriteNext == WInsert \/ WUpdate \/ WDelete \/ Begin \/ Commit \/ Rollback

SpecWrite == WriteInit /\ [][WriteNext]_vars

\* ------------------------------------------------ properties of the writers

WriteOps == {"Insert", "Update", "Delete"}

\* the tables a call works on: with a transaction what the transaction sees,
\* without one the committed tables
Seen(d, inTx) == IF inTx THEN View(d) ELSE d.tables

TableOf(name) == TypeTable[name].ti.TableName

AutoField(name) == GetAutoIncrement(TypeTable[name].ti).FieldName

\* C7: after a successful Insert of an entity whose type declares an
\* auto-increment field, that field holds the identifier the database gave
\* the new row, which is greater than zero, whatever the field held before,
\* and the table holds exactly one row more than before the call: the rows
\* it had and the new row. The same holds inside the transaction for
\* InsertTx, and a commit of a transaction that ran just that insert leaves
\* the table with that one row more.
C7_InsertAssignsId ==
    /\ (res.op = "Insert" /\ res.err = "" /\ HasAutoIncrement(TypeTable[res.type].ti))
       => LET t == TableOf(res.type)
              was == Seen(res.before, res.inTx)[t]
              now == Seen(db, res.inTx)[t]
              id == res.e[AutoField(res.type)]
          IN  /\ id > 0
              /\ id = res.before.seq[t]
              /\ was \subseteq now
              /\ Cardinality(now) = Cardinality(was) + 1
              /\ \A r \in now \ was :
                    /\ r[AutoIncrementColumn(t)] = id
                    /\ r.name = res.entity.Name
              /\ \A f \in DOMAIN res.e : f # AutoField(res.type) => res.e[f] = res.entity[f]
    /\ (res.op = "Commit" /\ Len(res.before.tx.log) = 1
          /\ res.before.tx.log[1].kind = "INSERT" /\ res.before.tx.log[1].auto)
       => LET t == res.before.tx.log[1].table
          IN  /\ db.tables[t] = res.before.tables[t] \cup {res.before.tx.log[1].row}
              /\ Cardinality(db.tables[t]) = Cardinality(res.before.tables[t]) + 1

\* an Insert on the database that overwrote an identifier the entity held
C7_Witness ==
    /\ res.op = "Insert" /\ res.err = "" /\ ~res.inTx /\ res.type = "user"
    /\ res.entity.Id = 1 /\ res.e.Id = MaxKey + 1
    /\ Cardinality(db.tables["users"]) = MaxKey + 1

\* C8: a Tx variant works only inside the caller's transaction: the committed
\* tables are as before the call and the change is seen in the transaction;
\* a rollback leaves the committed tables as they were and nothing of the
\* transaction remains, a commit makes the tables what the transaction saw.
\* A non-Tx variant changes the committed tables at once and leaves an open
\* transaction's statements alone.
C8_TxOnlyInTransaction ==
    /\ (res.op \in WriteOps /\ res.inTx)
       => /\ db.tables = res.before.tables
          /\ db.tx.open
          /\ res.err = "" => /\ Len(db.tx.log) = Len(res.before.tx.log) + 1
                             /\ SubSeq(db.tx.log, 1, Len(res.before.tx.log)) = res.before.tx.log
                             /\ View(db) = ApplyStmt(View(res.before), db.tx.log[Len(db.tx.log)])
          /\ res.err # "" => db.tx = res.before.tx
    /\ (res.op \in WriteOps /\ ~res.inTx)
       => /\ db.tx = res.before.tx
          /\ (res.op = "Insert" /\ res.err = "")
             => Cardinality(db.tables[TableOf(res.type)])
                  = Cardinality(res.before.tables[TableOf(res.type)]) + 1
          /\ (res.op = "Delete" /\ res.err = "")
             => \A r \in db.tables[TableOf(res.type)] :
                   r[GetPrimaryKey(TypeTable[res.type].ti).ColumnName]
                     # res.entity[GetPrimaryKey(TypeTable[res.type].ti).FieldName]
    /\ res.op = "Rollback"
       => /\ db.tables = res.before.tables
          /\ ~db.tx.open /\ db.tx.log = << >>
          /\ View(db) = db.tables
    /\ res.op = "Commit"
       => /\ db.tables = View(res.before)
          /\ ~db.tx.open /\ db.tx.log = << >>

\* an UpdateTx whose change the transaction sees and the tables do not
C8_Witness ==
    /\ res.op = "Update" /\ res.inTx /\ res.err = ""
    /\ View(db) # db.tables
    /\ db.tables = res.before.tables

\* the row of the table that Update writes for entity e over row r
Written(name, e, r) ==
    LET ti == TypeTable[name].ti
    IN  [c \in DOMAIN r |->
           IF c \in DOMAIN ti.ColumnInfos /\ ~ti.ColumnInfos[c].IsPrimaryKey
           THEN e[ti.ColumnInfos[c].FieldName] ELSE r[c]]

\* the tables after entity e of type name was updated or deleted
Expected(op, name, e, tables) ==
    LET pk == GetPrimaryKey(TypeTable[name].ti)
    IN  [tables EXCEPT ![TableOf(name)] =
           IF op = "Update"
           THEN {IF r[pk.ColumnName] = e[pk.FieldName] THEN Written(name, e, r) ELSE r : r \in @}
           ELSE {r \in @ : r[pk.ColumnName] # e[pk.FieldName]}]

\* C9: a successful Update or Delete acts on exactly the row whose primary
\* key column equals the entity's primary-key value: that row takes the
\* entity's values or goes, every other row and table stays as it was, and
\* the entity is not changed; passing the entity by value or by pointer
\* makes no difference.
C9_ExactlyTheKeyedRow ==
    (res.op \in {"Update", "Delete"} /\ res.err = "")
    => /\ Seen(db, res.inTx)
            = Expected(res.op, res.type, res.entity, Seen(res.before, res.inTx))
       /\ res.e = res.entity
       /\ db.seq = res.before.seq

\* an Update by value that changed the one row with the entity's key
C9_Witness ==
    /\ res.op = "Update" /\ res.err = "" /\ ~res.isPtr /\ ~res.inTx
    /\ res.type = "user" /\ res.entity.Id = 1
    /\ db.tables["users"] # res.before.tables["users"]
    /\ \E r \in db.tables["users"] : r.id = 1 /\ r.name = res.entity.Name
    /\ \E r \in db.tables["users"] : r.id = 2 /\ r.name = <<"a">>

ProjTypes == {"Order", "OrderItem", "userWithNote"}

\* the column lists of a caller's SELECT: "*" or some columns of the table
Projections(table) == {{"*"}} \cup (SUBSET Columns(table) \ {{}})

\* select <cols> from <table> where <key> in S
ProjectedQuery(ti, S, cols) == [PrimaryQuery(ti, S) EXCEPT !.cols = cols]

ProjSingleAny(types) ==
    \E name \in ProjTypes : \E S \in SUBSET Keys :
    \E cols \in Projections(types[name].ti.TableName) :
    \E prior \in PriorStructs(types[name].zero,
                              UsedOf(StructFields(name), types[name].zero)) :
       SingleCall(types,
                  [ op |-> "Single", type |-> name, includes |-> << >>,
                    prior |-> prior, q |-> ProjectedQuery(types[name].ti, S, cols),
                    ran |-> TRUE,
                    matched |-> Len(RunQuery(db.tables,
                                             PrimaryQuery(types[name].ti, S)).rows) ])

\* session.Find("select <cols> ...", nil).Single(&result)
PSingle == res = NoRes /\ ProjSingleAny(TypeTable)

ProjAllAny(types) ==
    \E name \in ProjTypes : \E S \in SUBSET Keys :
    \E cols \in Projections(types[name].ti.TableName) : \E elemIsPtr \in BOOLEAN :
    \E arr \in PriorSlices(UsedOf(StructFields(name), types[name].zero), elemIsPtr) :
       AllCall(types,
               [ type |-> name, includes |-> << >>, elemIsPtr |-> elemIsPtr,
                 arr |-> arr, q |-> ProjectedQuery(types[name].ti, S, cols),
                 matched |-> Len(RunQuery(db.tables, PrimaryQuery(types[name].ti, S)).rows) ])

\* session.Find("select <cols> ...", nil).All(&results)
PAll == res = NoRes /\ ProjAllAny(TypeTable)

ProjGetAny(types) ==
    \E name \in ProjTypes : \E pk \in 1..(MaxKey + 1) :
    \E prior \in PriorStructs(types[name].zero,
                              UsedOf(StructFields(name), types[name].zero)) :
       GetCall(types, name, pk, << >>, prior)

\* session.Get(id).Do(&result)
PGet == res = NoRes /\ ProjGetAny(TypeTable)

ProjNext == PSingle \/ PAll \/ PGet

SpecProj == QueryInit /\ [][ProjNext]_vars

\* the mapped columns of the type of call r that its result set lacks
AbsentColumns(r) == DOMAIN TypeTable[r.type].ti.ColumnInfos \ ResultColumns(r.q)

\* the fields of those columns hold the zero value in struct e
AbsentAreZero(r, e) ==
    \A c \in AbsentColumns(r) :
       e[TypeTable[r.type].ti.ColumnInfos[c].FieldName]
          = TypeTable[r.type].zero[TypeTable[r.type].ti.ColumnInfos[c].FieldName]

\* C11: after a successful Single, Get or All over a result set whose columns
\* are a strict subset of the mapped columns, no error is returned and,
\* whatever the destination held before, every destination field whose
\* column the result set lacks holds its zero value.
C11_AbsentColumnsZero ==
    (res.op \in {"Single", "Get", "All"} /\ res.matched >= 1
       /\ ResultColumns(res.q) \subseteq DOMAIN TypeTable[res.type].ti.ColumnInfos
       /\ AbsentColumns(res) # {})
    => /\ res.err = ""
       /\ res.op \in {"Single", "Get"} => AbsentAreZero(res, res.e)
       /\ res.op = "All" => \A k \in DOMAIN res.dest : AbsentAreZero(res, res.dest[k].e)

\* the same call of All with the other shape of destination, from an empty
\* slice
OtherShape(r) ==
    All(TypeTable, db.tables, r.type, ~r.elemIsPtr, << >>, r.includes, r.q)

\* the structs of a destination, whatever its shape
Contents(dest) == [k \in DOMAIN dest |-> dest[k].e]

\* C12: All accepts a slice of structs and a slice of pointers to structs:
\* for the same query and the same Include list, empty or not, both shapes
\* return without failure and hold the same rows with the same association
\* contents.
C12_BothShapesAlike ==
    (res.op = "All" /\ res.arr = << >> /\ res.elemIsPtr /\ res.err = "")
    => /\ OtherShape(res).err = ""
       /\ Contents(OtherShape(res).dest) = Contents(res.dest)

\* the Include list of call r without the names that are no association of
\* its result type
KnownIncludes(r) ==
    SelectSeq(r.includes, LAMBDA a : a \in AssocNames(TypeTable[r.type].ti))

\* the error and the destination of the same call as r with that list
WithoutUnknown(r) ==
    CASE r.op = "Single" ->
           [err |-> Single(TypeTable, db.tables, r.type, r.prior, KnownIncludes(r), r.q).err,
            out |-> Single(TypeTable, db.tables, r.type, r.prior, KnownIncludes(r), r.q).e]
      [] r.op = "Get" ->
           [err |-> Get(TypeTable, db.tables, r.type, ParseLiteral(r.q.values[1]), r.prior,
                        KnownIncludes(r)).err,
            out |-> Get(TypeTable, db.tables, r.type, ParseLiteral(r.q.values[1]), r.prior,
                        KnownIncludes(r)).e]
      [] r.op = "All" ->
           [err |-> All(TypeTable, db.tables, r.type, r.elemIsPtr, r.arr,
                        KnownIncludes(r), r.q).err,
            out |-> IF All(TypeTable, db.tables, r.type, r.elemIsPtr, r.arr,
                           KnownIncludes(r), r.q).set
                    THEN All(TypeTable, db.tables, r.type, r.elemIsPtr, r.arr,
                             KnownIncludes(r), r.q).dest
                    ELSE r.arr]

\* C13: for any mapped result type, with or without primary key and
\* associations, an Include name that is no association of the type is
\* ignored: Single, Get and All return the same error and leave the same
\* destination content as the same call without that name.
C13_UnknownIncludeIgnored ==
    (res.op \in {"Single", "Get", "All"} /\ res.ran /\ KnownIncludes(res) # res.includes)
    => /\ res.err = WithoutUnknown(res).err
       /\ (IF res.op = "All" THEN res.dest ELSE res.e) = WithoutUnknown(res).out

\* ------------------------------------- malformed association tags, as a system
\* Callers register, in any order and as often as they like, types that carry
\* an association tag without "=" or with nothing after it.

BadTypes == {"BadItems", "BadItemsFirst", "EmptyItems", "BadOrder", "EmptyOrder"}

\* the types for which AddType has returned an error so far
Failed == IF res.op = "AddType" THEN res.failed ELSE {}

\* AddType returns r to the caller
BadTypeReturns(name, gotype, r) ==
    /\ Len(r.heap) <= MaxDescriptors
    /\ typeCache' = r.cache
    /\ heap' = r.heap
    /\ returned' = IF r.err = ""
                   THEN [returned EXCEPT ![name] = @ \cup {r.ref}]
                   ELSE returned
    /\ res' = [op |-> "AddType", name |-> name, type |-> gotype, ref |-> r.ref,
               err |-> r.err, failedBefore |-> Failed,
               failed |-> IF r.err # "" THEN Failed \cup {name} ELSE Failed]
    /\ UNCHANGED <<db, nq>>

\* a caller registers a type: AddType(reflect.TypeOf(v))
BadAddType ==
    \E name \in BadTypes : \E gotype \in Shapes(name) :
       BadTypeReturns(name, gotype, AddType(typeCache, heap, gotype))

BadNext == BadAddType

SpecBad == RegInit /\ [][BadNext]_vars

\* the field of a type of BadTypes that carries the malformed tag
OffendingField(name) ==
    CHOOSE f \in Range(StructFields(name)) :
       f.Tag # << >> /\ f.Tag[1] \in {"oneToMany", "oneToOne"}

\* C14: AddType on a type with a field whose tag begins with oneToMany or
\* oneToOne and has no "=", or nothing after the "=", returns an error that
\* names the offending field, and returns no descriptor.
C14_MalformedTagFails ==
    (res.op = "AddType" /\ res.name \in BadTypes)
    => /\ res.err = InvalidSpecification(OffendingField(res.name).Tag[1],
                                         OffendingField(res.name).Name)
       /\ res.ref = 0

\* C15: a registration error is surfaced on every call: a call of AddType
\* that returns an error leaves no entry for the type in the type cache, and
\* every later call for a type that has failed returns an error again and
\* no descriptor.
C15_ErrorOnEveryCall ==
    res.op = "AddType"
    => /\ res.err # "" => typeCache[res.name] = 0
       /\ res.name \in res.failedBefore => (res.err # "" /\ res.ref = 0)

\* ------------------------------------------- failures of the database handle

\* the error a failing driver reports
DriverError == "driver: bad connection"

\* where the driver fails: not at all, in Query, in the call of rows.Next
\* that follows at rows, or in the Scan of row at
Faults ==
    {[kind |-> "none", at |-> 0], [kind |-> "query", at |-> 0]}
       \cup {[kind |-> k, at |-> n] : k \in {"next"}, n \in 0..MaxKey}
       \cup {[kind |-> k, at |-> n] : k \in {"scan"}, n \in 1..MaxKey}

\* what sql.DB.Query and the sql.Rows hand to the caller under a fault: the
\* error of Query, the rows that rows.Next delivers, the error that rows.Err
\* holds once rows.Next has returned false, and the row whose Scan fails
Driver(r, fault) ==
    IF fault.kind = "query"
    THEN [err |-> DriverError, rows |-> << >>, rowsErr |-> "", scanAt |-> 0]
    ELSE IF fault.kind = "next" /\ fault.at <= Len(r.rows)
    THEN [err |-> r.err, rows |-> SubSeq(r.rows, 1, fault.at),
          rowsErr |-> DriverError, scanAt |-> 0]
    ELSE IF fault.kind = "scan" /\ fault.at <= Len(r.rows)
    THEN [err |-> r.err, rows |-> r.rows, rowsErr |-> "", scanAt |-> fault.at]
    ELSE [err |-> r.err, rows |-> r.rows, rowsErr |-> "", scanAt |-> 0]

\* whether the driver reported an error to the running operation, which
\* reads every row or the first row only
Reported(r, firstOnly) ==
    \/ r.err # ""
    \/ r.rowsErr # "" /\ (~firstOnly \/ r.rows = << >>)
    \/ r.scanAt > 0 /\ (~firstOnly \/ r.scanAt = 1)

\* finder.All, "for rows.Next() { ... err = rows.Scan(resultFields...);
\* if err != nil { return err } ... }" and the Set that follows the loop;
\* rows.Err is not read
AllLoop(t, elemIsPtr, arr, r, columns) ==
    IF r.err = "" /\ r.scanAt > 0
    THEN [err |-> DriverError, dest |-> << >>, set |-> FALSE]
    ELSE AppendRows(t, elemIsPtr, arr, r, columns)

\* finder.Single and getter.Do, "if rows.Next() { ... err = rows.Scan(...) ...
\* } else { return sql.ErrNoRows }"; rows.Err is not read
SingleRead(t, name, prior, r, columns) ==
    IF r.err = "" /\ r.scanAt = 1
    THEN [err |-> DriverError, e |-> prior, queries |-> << >>, added |-> <<name>>]
    ELSE ScanFirst(t, name, prior, r, columns)

\* finder.Scalar, "err := row.Scan(value.Interface())": sql.Row.Scan returns
\* the error of the query, the error of rows.Err when there is no row, and
\* the error of the Scan
RowScan(r, column, prior) ==
    IF r.err = "" /\ r.rows = << >> /\ r.rowsErr # ""
    THEN [err |-> r.rowsErr, value |-> prior]
    ELSE IF r.err = "" /\ r.scanAt = 1
    THEN [err |-> DriverError, value |-> prior]
    ELSE ScanScalar(r, column, prior)

FaultReturns(op, a, r, out, o) ==
    /\ res' = [ op |-> op, type |-> a.type, q |-> a.q, fault |-> a.fault, prior |-> a.prior,
                reported |-> Reported(r, op # "All"), delivered |-> Len(r.rows),
                err |-> o.err, out |-> out ]
    /\ UNCHANGED <<typeCache, heap, returned, db, nq>>

FAllRead(a, r, o) ==
    FaultReturns("All", a, r, IF o.set THEN o.dest ELSE a.prior, o)

FAllCall(t, a, r) ==
    FAllRead(a, r, AllLoop(t, TRUE, a.prior, r, ResultColumns(a.q)))

FSingleRead(a, r, o) == FaultReturns("Single", a, r, o.e, o)

FSingleCall(t, a, r) ==
    FSingleRead(a, r, SingleRead(t, a.type, a.prior, r, ResultColumns(a.q)))

FScalarRead(a, r, o) == FaultReturns("Scalar", a, r, o.value, o)

FScalarCall(a, r) == FScalarRead(a, r, RowScan(r, KeyColumn(a.q.table), a.prior))

FaultTypes == {"Order", "Parcel"}

\* session.Find(sql, nil).All(&results) on a failing driver
FAll ==
    /\ res = NoRes
    /\ \E name \in FaultTypes : \E S \in SUBSET Keys : \E fault \in Faults :
          FAllCall(TypeTable[name],
                   [type |-> name, q |-> PrimaryQuery(TypeTable[name].ti, S),
                    fault |-> fault, prior |-> << >>],
                   Driver(RunQuery(db.tables, PrimaryQuery(TypeTable[name].ti, S)), fault))

\* session.Find(sql, nil).Single(&result) on a failing driver
FSingle ==
    /\ res = NoRes
    /\ \E name \in FaultTypes : \E S \in SUBSET Keys : \E fault \in Faults :
          FSingleCall(TypeTable[name],
                      [type |-> name, q |-> PrimaryQuery(TypeTable[name].ti, S),
                       fault |-> fault, prior |-> TypeTable[name].zero],
                      Driver(RunQuery(db.tables, PrimaryQuery(TypeTable[name].ti, S)), fault))

\* session.Find(sql, nil).Scalar(&value) on a failing driver
FScalar ==
    /\ res = NoRes
    /\ \E name \in FaultTypes : \E S \in SUBSET Keys : \E fault \in Faults :
          FScalarCall([type |-> name, q |-> PrimaryQuery(TypeTable[name].ti, S),
                       fault |-> fault, prior |-> 0],
                      Driver(RunQuery(db.tables, PrimaryQuery(TypeTable[name].ti, S)), fault))

FInsertDone(e, o) ==
    /\ res' = [ op |-> "Insert", type |-> "Shipment", entity |-> e, before |-> db,
                reported |-> (o.sent # << >> /\ Rejected(db.tables, Resolved(o.sent[1], db.seq))),
                err |-> o.err, sent |-> o.sent ]
    /\ db' = o.db
    /\ typeCache' = o.cache
    /\ heap' = o.heap
    /\ UNCHANGED <<returned, nq>>

\* session.Insert(&shipment) where the statement may be rejected
FInsert ==
    /\ res = NoRes
    /\ \E e \in Entities("Shipment") :
          FInsertDone(e, insert(typeCache, heap, db, "Shipment", e, TRUE, FALSE, "MySQL"))

FaultNext == FAll \/ FSingle \/ FScalar \/ FInsert

SpecFault == QueryInit /\ [][FaultNext]_vars

\* C16: no failure of the database handle is swallowed: when the driver
\* reports an error while a query is executed, while rows are iterated, while
\* a row is scanned or while a statement is executed, the running operation
\* returns that error, never nil with a partial result and never ErrNoRows.
C16_NoFailureSwallowed ==
    (res.op \in {"All", "Single", "Scalar", "Insert"} /\ res.reported)
    => res.err \in {DriverError, "Error 1062"}

\* ------------------------------------------------------------- migrations

MaxVersion == 2        \* version numbers of the migration files
MaxStatements == 2     \* pieces between ";" in a migration file
MaxFiles == 2          \* files that match *.sql in the directory

MigrationTables == {"a", "b"}

\* the text between two ";" of a file, line by line; a line is its words
Lines ==
    { << <<"--", "note">> >>,
      << <<"create", "a">> >>,
      << <<"#", "note">>, <<"create", "b">> >>,
      << <<"bad">> >> }

\* the content of a file: strings.Split(string(data), ";")
Scripts == SeqsUpTo(Lines, MaxStatements) \ {<< >>}

MigrationFiles == {[Version |-> v, lines |-> l] : v \in 1..MaxVersion, l \in Scripts}

\* filepath.Glob(path.Join(m.path, "*.sql")), in the order of the file names
Directories == SeqsUpTo(MigrationFiles, MaxFiles) \ {<< >>}

\* what a statement does to the schema and to the version table
MigApply(s, stmt) ==
    IF stmt[1] = "create" THEN [s EXCEPT !.schema = @ \cup {stmt[2]}]
    ELSE IF stmt[1] = "version" THEN [s EXCEPT !.versions = @ \cup {stmt[2]}]
    ELSE s

RECURSIVE MigApplyAll(_, _, _)
MigApplyAll(s, log, i) ==
    IF i > Len(log) THEN s ELSE MigApplyAll(MigApply(s, log[i]), log, i + 1)

\* the database as the open transaction sees it
MigView(d) == MigApplyAll([schema |-> d.schema, versions |-> d.versions], d.tx.log, 1)

\* the error of the database for a statement: CREATE TABLE fails when the
\* table exists, the insert of the version never fails (INSERT OR IGNORE,
\* ON DUPLICATE KEY UPDATE), anything else is no SQL
MigError(view, stmt) ==
    IF stmt[1] = "create"
    THEN (IF stmt[2] \in view.schema THEN "table already exists" ELSE "")
    ELSE IF stmt[1] = "version" THEN ""
    ELSE "syntax error"

\* m.db.Begin()
MigBegin(d) == [d EXCEPT !.tx = [open |-> TRUE, log |-> << >>]]

MigCommitted(view) == [schema |-> view.schema, versions |-> view.versions, tx |-> NoTx]

\* tx.Commit()
MigCommit(d) == MigCommitted(MigView(d))

\* tx.Rollback() that keeps what the transaction did
MigRollbackKeeps(d) == MigCommit(d)

\* tx.Rollback()
MigRollback(d) == [d EXCEPT !.tx = NoTx]

\* tx.Exec(sql) of a statement the database accepts
MigTxExec(d, stmt) == [d EXCEPT !.tx.log = Append(@, stmt)]

RECURSIVE StripComments(_, _, _)
\* "Split lines and remove comments"
StripComments(lines, i, sqlbuf) ==
    IF i > Len(lines) THEN sqlbuf
    ELSE IF HasPrefix(lines[i], "--") \/ HasPrefix(lines[i], "#")
    THEN StripComments(lines, i + 1, sqlbuf)
    ELSE StripComments(lines, i + 1, sqlbuf \o lines[i])

MigExecuted(m, fx, sql, err) == Append(m.executed, [file |-> fx, sql |-> sql, err |-> err])

RECURSIVE RunLines(_, _, _, _)

\* "_, err := tx.Exec(sql); if err != nil { tx.Rollback(); return err }"
LineExecuted(m, file, fx, j, sql, err) ==
    IF err # ""
    THEN [m EXCEPT !.db = MigRollback(m.db), !.executed = MigExecuted(m, fx, sql, err),
                   !.err = err]
    ELSE RunLines([m EXCEPT !.db = MigTxExec(m.db, sql),
                            !.executed = MigExecuted(m, fx, sql, "")],
                  file, fx, j + 1)

\* "if sql != \"\""
RunLine(m, file, fx, j, sql) ==
    IF sql = << >> THEN RunLines(m, file, fx, j + 1)
    ELSE LineExecuted(m, file, fx, j, sql, MigError(MigView(m.db), sql))

\* "Execute SQL script": for _, line := range lines
RunLines(m, file, fx, j) ==
    IF j > Len(file.lines) THEN m
    ELSE RunLine(m, file, fx, j, StripComments(file.lines[j], 1, << >>))

\* "Update to new version" and "Commit"
FileRan(m, file, fx) ==
    IF m.err # "" THEN m
    ELSE [m EXCEPT !.db = MigCommit(MigTxExec(m.db, <<"version", file.Version>>)),
                   !.executed = MigExecuted(m, fx, <<"version", file.Version>>, ""),
                   !.version = file.Version]

\* the body of "if migration.Version > version"
ApplyFile(m, file, fx) ==
    FileRan(RunLines([m EXCEPT !.db = MigBegin(m.db)], file, fx, 1), file, fx)

RECURSIVE Migrate(_, _, _)
\* "Apply or skip all migrations"
Migrate(m, dir, fx) ==
    IF fx > Len(dir) \/ m.err # "" THEN m
    ELSE IF dir[fx].Version > m.version
    THEN Migrate(ApplyFile(m, dir[fx], fx), dir, fx + 1)
    ELSE Migrate(m, dir, fx + 1)

\* "SELECT version FROM dapper_migrations ORDER BY version DESC LIMIT 1"
CurrentVersion(versions) ==
    IF versions = {} THEN -1 ELSE CHOOSE v \in versions : \A w \in versions : w <= v

\* migrator.Do
MigratorDo(d, dir) ==
    Migrate([db |-> d, version |-> CurrentVersion(d.versions), executed |-> << >>,
             err |-> ""],
            dir, 1)

MigrateInit ==
    /\ typeCache = [n \in StructNames |-> 0]
    /\ heap = << >>
    /\ returned = [n \in StructNames |-> {}]
    /\ \E schema \in SUBSET MigrationTables : \E versions \in {{}, {1}} :
          db = [schema |-> schema, versions |-> versions, tx |-> NoTx]
    /\ res = NoRes
    /\ nq = 0

DoReturns(dir, m) ==
    /\ res' = [op |-> "Do", dir |-> dir, before |-> db, err |-> m.err,
               executed |-> m.executed]
    /\ db' = m.db
    /\ UNCHANGED <<typeCache, heap, returned, nq>>

\* NewMigrator(db, path).Do()
MDo == res = NoRes /\ \E dir \in Directories : DoReturns(dir, MigratorDo(db, dir))

MigrateNext == MDo

SpecMigrate == MigrateInit /\ [][MigrateNext]_vars

\* the statements of the run that the database accepted outside file f
EffectsOutside(r, f) ==
    {r.executed[i].sql : i \in {k \in DOMAIN r.executed :
                                  r.executed[k].err = "" /\ r.executed[k].file # f}}

\* C17: when a statement of a migration file fails, the migrator rolls back
\* that file's transaction and returns the error without executing any later
\* statement or file: none of the failing file's statements takes effect and
\* no version row is recorded for it, so the version table holds exactly the
\* versions it held before that file was started.
C17_FailedFileRolledBack ==
    (res.op = "Do" /\ \E i \in DOMAIN res.executed : res.executed[i].err # "")
    => LET n == Len(res.executed)
           f == res.executed[n].file
       IN /\ res.executed[n].err # "" /\ res.err = res.executed[n].err
          /\ \A i \in 1..(n - 1) : res.executed[i].err = "" /\ res.executed[i].file <= f
          /\ ~db.tx.open
          /\ res.dir[f].Version \notin db.versions
          /\ db.versions = res.before.versions
                \cup {s[2] : s \in {t \in EffectsOutside(res, f) : t[1] = "version"}}
          /\ db.schema = res.before.schema
                \cup {s[2] : s \in {t \in EffectsOutside(res, f) : t[1] = "create"}}

\* a second file fails in its second statement, after its first statement
\* was accepted and after the first file was applied
C17_Witness ==
    /\ res.op = "Do" /\ res.err # "" /\ Len(res.executed) = 4
    /\ res.executed[4].file = 2 /\ res.executed[3].file = 2 /\ res.executed[1].file = 1
    /\ db.schema # res.before.schema

\* -------------------------------------------------------------------- Count

MaxRows == 2           \* rows of the result of a Count query

\* the values a driver produces for the first column of a row: an int64 n,
\* a text t, a float64 n with the digits t of its fraction, a bool, or NULL
Produced ==
    {[kind |-> "int64", n |-> n, t |-> << >>] : n \in {0, MaxKey}}
       \cup {[kind |-> "text", n |-> 0, t |-> t] : t \in {<<"b">>, <<"2">>}}
       \cup {[kind |-> "float64", n |-> MaxKey, t |-> t] : t \in {<< >>, <<"5">>}}
       \cup {[kind |-> "bool", n |-> 1, t |-> << >>], [kind |-> "nil", n |-> 0, t |-> << >>]}

\* the results of the caller's SQL: the first column of each row
CountResults == SeqsUpTo(Produced, MaxRows)

\* sql.Row.Scan into a *int64: an int64 is stored, a text is parsed by
\* strconv.ParseInt, a float64 is parsed from its shortest decimal form, and
\* what is no number is a conversion error
ScanInt64(src) ==
    IF src.kind = "int64" THEN [err |-> "", value |-> src.n]
    ELSE IF src.kind = "text" /\ IsNumberLiteral(src.t)
    THEN [err |-> "", value |-> ParseDigits(src.t, 0)]
    ELSE IF src.kind = "float64" /\ src.t = << >> THEN [err |-> "", value |-> src.n]
    ELSE [err |-> "sql: Scan error on column index 0", value |-> 0]

\* finder.Scalar(&count) with "var count int64"
ScalarInt64(rows) ==
    IF rows = << >> THEN [err |-> "ErrNoRows", value |-> 0] ELSE ScanInt64(rows[1])

\* finder.Scalar(&result) with "var result interface{}": the value is stored
\* as the driver produced it
ScalarAnyValue(rows) ==
    IF rows = << >> THEN [err |-> "ErrNoRows", value |-> [kind |-> "nil", n |-> 0, t |-> << >>]]
    ELSE [err |-> "", value |-> rows[1]]

CountScanned(x) ==
    IF x.err # "" THEN [err |-> x.err, count |-> 0] ELSE [err |-> "", count |-> x.value]

\* Session.Count: "var count int64; err := s.Find(sqlQuery, param).Scalar(&count)"
Count(rows) == CountScanned(ScalarInt64(rows))

CountAsserted(x) ==
    IF x.err # "" THEN [err |-> x.err, count |-> 0]
    ELSE IF x.value.kind = "int64" THEN [err |-> "", count |-> x.value.n]
    ELSE [err |-> "ErrWrongType", count |-> 0]

\* Session.Count of the later version: "if count, ok := result.(int64); ok"
CountWithErrWrongType(rows) == CountAsserted(ScalarAnyValue(rows))

CountReturns(version, rows, o) ==
    /\ res' = [op |-> "Count", version |-> version, rows |-> rows, err |-> o.err,
               count |-> o.count]
    /\ nq' = nq + 1
    /\ UNCHANGED <<typeCache, heap, returned, db>>

\* session.Count(sql, nil)
CCount ==
    /\ nq < MaxCalls
    /\ \E rows \in CountResults : CountReturns(1, rows, Count(rows))

\* session.Count(sql, nil), later version
CCountLater ==
    /\ nq < MaxCalls
    /\ \E rows \in CountResults : CountReturns(2, rows, CountWithErrWrongType(rows))

CountNext == CCount \/ CCountLater

SpecCount == RegInit /\ [][CountNext]_vars

\* C18: Count returns ErrWrongType whenever the first column of the first
\* row is not produced as an int64; it never returns a coerced number and
\* never another error for that case.
C18_CountWrongType ==
    (res.op = "Count" /\ res.rows # << >> /\ res.rows[1].kind # "int64")
    => res.err = "ErrWrongType" /\ res.count = 0

\* ------------------------------------------------- Quote with a dialect

Dialects == {"MySQL", "Sqlite3", "PostgreSQL"}

SignedKinds == {"int", "int8", "int16", "int32", "int64"}
UnsignedKinds == {"uint", "uint8", "uint16", "uint32", "uint64"}
FloatKinds == {"float32", "float64"}

\* a value handed to Quote: its Go type (kind; form says whether it is the
\* value, a pointer to it or the nil pointer of the type) and its content:
\* n is the number (a float in millionths, a bool as 0 or 1), s the text,
\* parts the year, month, day, hour, minute and second of a time.Time
QVal(kind, form, n, s, parts) ==
    [kind |-> kind, form |-> form, n |-> n, s |-> s, parts |-> parts]

QuoteValues ==
    {QVal(k, f, n, << >>, << >>) :
        k \in SignedKinds, f \in {"value", "ptr"}, n \in {-1, 0, MaxKey}}
    \cup {QVal(k, f, n, << >>, << >>) :
        k \in UnsignedKinds, f \in {"value", "ptr"}, n \in {0, MaxKey}}
    \cup {QVal(k, f, n, << >>, << >>) :
        k \in FloatKinds, f \in {"value", "ptr"}, n \in {-1500000, 0, 1000000}}
    \cup {QVal("bool", f, n, << >>, << >>) : f \in {"value", "ptr"}, n \in {0, 1}}
    \cup {QVal("string", f, 0, s, << >>) :
        f \in {"value", "ptr"}, s \in {<< >>, <<"b">>, <<"M", "c", "'", "A">>, <<"\\">>}}
    \cup {QVal("time.Time", f, 0, << >>, p) :
        f \in {"value", "ptr"}, p \in {<<2012, 3, 7, 9, 5, 0>>, <<1999, 12, 31, 23, 59, 59>>}}
    \cup {QVal(k, "nilptr", 0, << >>, << >>) :
        k \in SignedKinds \cup UnsignedKinds \cup FloatKinds \cup {"bool", "string", "time.Time"}}
    \cup {QVal("nil", "value", 0, << >>, << >>)}

RECURSIVE DialectQuoteString(_, _)
\* Dialect.QuoteString: every backslash is doubled; a single quote is
\* doubled by Sqlite3 and gets a backslash from MySQL and PostgreSQL
DialectQuoteString(dialect, s) ==
    IF s = << >> THEN << >>
    ELSE IF Head(s) = "\\" THEN <<"\\", "\\">> \o DialectQuoteString(dialect, Tail(s))
    ELSE IF Head(s) = "'" /\ dialect = "Sqlite3"
    THEN <<"'", "'">> \o DialectQuoteString(dialect, Tail(s))
    ELSE IF Head(s) = "'" THEN <<"\\", "'">> \o DialectQuoteString(dialect, Tail(s))
    ELSE <<Head(s)>> \o DialectQuoteString(dialect, Tail(s))

\* fmt.Sprintf("%d", n)
FormatInt(n) == IF n < 0 THEN <<"-">> \o Digits(-n) ELSE Digits(n)

RECURSIVE Padded(_, _)
\* the digits of n, with zeros in front up to the width
Padded(n, width) ==
    IF width <= 1 THEN Digits(n)
    ELSE IF Len(Digits(n)) >= width THEN Digits(n)
    ELSE <<"0">> \o Padded(n, width - 1)

\* fmt.Sprintf("%f", f) for f = n millionths
FormatFloat(n) ==
    IF n < 0 THEN <<"-">> \o Digits((-n) \div 1000000) \o <<".">> \o Padded((-n) % 1000000, 6)
    ELSE Digits(n \div 1000000) \o <<".">> \o Padded(n % 1000000, 6)

\* time.Time.Format("2006-01-02 15:04:05")
FormatTime(p) ==
    Padded(p[1], 4) \o <<"-">> \o Padded(p[2], 2) \o <<"-">> \o Padded(p[3], 2) \o <<" ">>
       \o Padded(p[4], 2) \o <<":">> \o Padded(p[5], 2) \o <<":">> \o Padded(p[6], 2)

NullLiteral == <<"N", "U", "L", "L">>

Literal(text) == [panic |-> FALSE, text |-> text]

\* the text of a string literal: fmt.Sprintf("'%s'", dialect.QuoteString(data))
StringLiteral(dialect, s) == Literal(<<"'">> \o DialectQuoteString(dialect, s) \o <<"'">>)

\* panic(fmt.Sprintf("SQL quoting for type %s is not supported", ...))
QuotePanic == [panic |-> TRUE, text |-> << >>]

\* the cases of the type switch for the values that are no pointers
QuoteOfValue(dialect, val) ==
    IF val.kind = "nil" THEN Literal(NullLiteral)
    ELSE IF val.kind = "string" THEN StringLiteral(dialect, val.s)
    ELSE IF val.kind \in {"int", "int16", "int32", "int64",
                          "uint", "uint8", "uint16", "uint32", "uint64"}
    THEN Literal(FormatInt(val.n))
    ELSE IF val.kind \in {"float32", "float64"} THEN Literal(FormatFloat(val.n))
    ELSE IF val.kind = "bool" THEN Literal(IF val.n = 1 THEN <<"1">> ELSE <<"0">>)
    ELSE IF val.kind = "time.Time" THEN StringLiteral(dialect, FormatTime(val.parts))
    ELSE QuotePanic

\* the cases of the type switch for the pointers: "if data != nil { ... }
\* return \"NULL\""
QuoteOfPointer(dialect, val) ==
    IF val.kind \notin {"string", "int", "int16", "int32", "int64",
                        "uint8", "uint16", "uint32", "uint64",
                        "float32", "float64", "bool", "time.Time"}
    THEN QuotePanic
    ELSE IF val.form = "nilptr" THEN Literal(NullLiteral)
    ELSE IF val.kind = "string" THEN StringLiteral(dialect, val.s)
    ELSE IF val.kind \in {"float32", "float64"} THEN Literal(FormatFloat(val.n))
    ELSE IF val.kind = "bool" THEN Literal(IF val.n = 1 THEN <<"1">> ELSE <<"0">>)
    ELSE IF val.kind = "time.Time" THEN StringLiteral(dialect, FormatTime(val.parts))
    ELSE Literal(FormatInt(val.n))

\* Quote(dialect, val)
DialectQuote(dialect, val) ==
    IF val.form = "value" THEN QuoteOfValue(dialect, val) ELSE QuoteOfPointer(dialect, val)

QuoteReturns(dialect, val, out) ==
    /\ res' = [op |-> "Quote", dialect |-> dialect, val |-> val, out |-> out]
    /\ UNCHANGED <<typeCache, heap, returned, db, nq>>

\* a caller quotes a value
QQuote ==
    /\ res = NoRes
    /\ \E dialect \in Dialects : \E val \in QuoteValues :
          QuoteReturns(dialect, val, DialectQuote(dialect, val))

QuoteNext == QQuote

SpecQuote == RegInit /\ [][QuoteNext]_vars

\* C19: Quote returns a literal without failing for every supported scalar
\* kind (string, every signed and unsigned integer width, both float widths,
\* bool, time.Time) and for the pointer form of each; a nil pointer of any
\* of these kinds and the untyped nil yield NULL, and booleans yield 1 or 0.
C19_QuoteEveryScalar ==
    res.op = "Quote"
    => /\ ~res.out.panic
       /\ (res.val.kind = "nil" \/ res.val.form = "nilptr") => res.out.text = NullLiteral
       /\ (res.val.kind = "bool" /\ res.val.form # "nilptr")
             => res.out.text = (IF res.val.n = 1 THEN <<"1">> ELSE <<"0">>)

\* ------------------------------------------------- concurrent AddType

Callers == {1, 2}

RaceTypes == {"user", "Order", "OrderItem"}

\* a goroutine that has not called AddType yet
Idle == [pc |-> "idle", name |-> "", i |-> 0, ref |-> 0, out |-> 0, err |-> ""]

RaceInit ==
    /\ typeCache = [n \in StructNames |-> 0]
    /\ heap = << >>
    /\ returned = [n \in StructNames |-> {}]
    /\ db = [tables |-> [t \in TableNames |-> {}], tx |-> NoTx,
             seq |-> [t \in TableNames |-> 1]]
    /\ res = [op |-> "Race", fatal |-> FALSE, callers |-> [c \in Callers |-> Idle],
              seen |-> [c \in Callers |-> << >>]]
    /\ nq = 0

\* goroutine c moves on
Moves(c, k) ==
    /\ res' = [res EXCEPT !.callers[c] = k]
    /\ UNCHANGED <<returned, db, nq>>

\* goroutine c returns the descriptor ref: what it holds reads as heap[ref]
Obtains(c, k, ref) ==
    /\ res' = [res EXCEPT !.callers[c] = [k EXCEPT !.pc = "done", !.out = ref],
                          !.seen[c] = <<heap[ref]>>]
    /\ UNCHANGED <<typeCache, heap, returned, db, nq>>

\* a goroutine calls AddType(reflect.TypeOf(v))
RCall(c) ==
    /\ res.callers[c].pc = "idle"
    /\ \E name \in RaceTypes : Moves(c, [Idle EXCEPT !.pc = "lookup", !.name = name])
    /\ UNCHANGED <<typeCache, heap>>

\* "if ti, found := typeCache[gotype]; found { return ti, nil }", and
\* "ti := &typeInfo{...}" after a miss
Lookup(c, k) ==
    IF typeCache[k.name] # 0 THEN Obtains(c, k, typeCache[k.name])
    ELSE /\ heap' = Append(heap, NewTypeInfo(<<k.name>>))
         /\ Moves(c, [k EXCEPT !.pc = "fields", !.ref = Len(heap) + 1, !.i = 1])
         /\ UNCHANGED typeCache

RLookup(c) == res.callers[c].pc = "lookup" /\ Lookup(c, res.callers[c])

\* one iteration of "for i := 0; i < n; i++", with "typeCache[gotype] = ti"
\* at its end
FieldDone(c, k, st) ==
    /\ heap' = [heap EXCEPT ![k.ref] = st.ti]
    /\ typeCache' = IF st.err = "" /\ st.stored
                    THEN [typeCache EXCEPT ![k.name] = k.ref] ELSE typeCache
    /\ Moves(c, IF st.err # "" THEN [k EXCEPT !.pc = "done", !.err = st.err]
                ELSE [k EXCEPT !.i = @ + 1])

RField(c) ==
    /\ res.callers[c].pc = "fields"
    /\ res.callers[c].i <= Len(StructFields(res.callers[c].name))
    /\ FieldDone(c, res.callers[c],
                 AddField([ti |-> heap[res.callers[c].ref], err |-> "", stored |-> FALSE],
                          StructFields(res.callers[c].name)[res.callers[c].i]))

\* "return ti, nil"
RReturn(c) ==
    /\ res.callers[c].pc = "fields"
    /\ res.callers[c].i > Len(StructFields(res.callers[c].name))
    /\ Obtains(c, res.callers[c], res.callers[c].ref)

\* whether goroutine c is about to assign to the map
Writing(c) ==
    /\ res.callers[c].pc = "fields"
    /\ res.callers[c].i <= Len(StructFields(res.callers[c].name))

\* the runtime finds the map written by one goroutine while another reads
\* or writes it: "fatal error: concurrent map writes"
RFatal ==
    /\ ~res.fatal
    /\ \E c \in Callers : \E d \in Callers \ {c} :
          Writing(c) /\ (Writing(d) \/ res.callers[d].pc = "lookup")
    /\ res' = [res EXCEPT !.fatal = TRUE,
                          !.callers = [c \in Callers |-> [res.callers[c] EXCEPT !.pc = "fatal"]]]
    /\ UNCHANGED <<typeCache, heap, returned, db, nq>>

RaceNext ==
    \/ \E c \in Callers : RCall(c)
    \/ \E c \in Callers : RLookup(c)
    \/ \E c \in Callers : RField(c)
    \/ \E c \in Callers : RReturn(c)
    \/ RFatal

SpecRace == RaceInit /\ [][RaceNext]_vars

\* C20: when two callers run the first AddType call for the same type
\* concurrently, both obtain the same descriptor, and no caller ever obtains
\* or reads a descriptor that lacks some of the type's mapped fields, columns
\* or associations.
C20_ConcurrentFirstUse ==
    res.op = "Race"
    => /\ ~res.fatal
       /\ \A c \in Callers :
             res.callers[c].pc = "done"
             => /\ res.callers[c].out # 0
                /\ res.seen[c] = <<BuildType(res.callers[c].name).ti>>
       /\ \A c \in Callers : \A d \in Callers :
             (res.callers[c].pc = "done" /\ res.callers[d].pc = "done"
                /\ res.callers[c].name = res.callers[d].name)
             => res.callers[c].out = res.callers[d].out

\* ------------------------------------------- migrations, run after run

\* the digits at the start of the names of the migration files
FileNames == {<<"1">>, <<"2">>, <<"1", "0">>}

\* what a file of the directory holds
FileScripts == { << << <<"create", "a">> >> >>, << << <<"--", "note">> >> >>, << << <<"bad">> >> >> }

RECURSIVE NameBefore(_, _)
\* the order of filepath.Glob: the names compared byte by byte
NameBefore(a, b) ==
    IF a = << >> THEN b # << >>
    ELSE IF b = << >> THEN FALSE
    ELSE IF Head(a) # Head(b) THEN DigitValue(Head(a)) < DigitValue(Head(b))
    ELSE NameBefore(Tail(a), Tail(b))

\* the file of a set whose name comes first
FirstByName(files) == CHOOSE f \in files : \A g \in files \ {f} : NameBefore(f.name, g.name)

\* "scriptVersion, _ := strconv.Atoi(matches[1])": migration{Version, Path}
Migration(f) == [Version |-> ParseDigits(f.name, 0), lines |-> f.lines, name |-> f.name]

RECURSIVE Glob(_)
\* "Retrieve the list of all migrations in the given path"
Glob(files) ==
    IF files = {} THEN << >>
    ELSE <<Migration(FirstByName(files))>> \o Glob(files \ {FirstByName(files)})

\* the directories: no two files have the same name
FileSets ==
    {files \in SUBSET {[name |-> n, lines |-> l] : n \in FileNames, l \in FileScripts} :
        /\ files # {}
        /\ \A f \in files : \A g \in files : f.name = g.name => f = g}

AgainInit ==
    /\ typeCache = [n \in StructNames |-> 0]
    /\ heap = << >>
    /\ returned = [n \in StructNames |-> {}]
    /\ db = [schema |-> {}, versions |-> {}, tx |-> NoTx]
    /\ res = NoRes
    /\ nq = 0

AgainReturns(files, dir, m) ==
    /\ res' = [op |-> "Do", files |-> files, dir |-> dir, before |-> db, err |-> m.err,
               executed |-> m.executed, run |-> nq + 1,
               earlier |-> IF nq = 0 THEN {} ELSE res.files,
               earlierErr |-> IF nq = 0 THEN "" ELSE res.err]
    /\ db' = m.db
    /\ nq' = nq + 1
    /\ UNCHANGED <<typeCache, heap, returned>>

AgainDo(files, dir) == AgainReturns(files, dir, MigratorDo(db, dir))

\* NewMigrator(db, path).Do() on a new database
ADo == nq = 0 /\ \E files \in FileSets : AgainDo(files, Glob(files))

\* NewMigrator(db, path).Do() once more, the directory holding what it held
\* and perhaps more
ADoAgain ==
    /\ nq = 1
    /\ \E files \in FileSets : res.files \subseteq files /\ AgainDo(files, Glob(files))

AgainNext == ADo \/ ADoAgain

SpecAgain == AgainInit /\ [][AgainNext]_vars

\* the schema version recorded when the run started
VersionAtStart(r) == CurrentVersion(r.before.versions)

\* the files a run found in addition to those of the run before it
Additional(r) == r.files \ r.earlier

\* C21: a migration file whose version is not greater than the recorded
\* schema version is skipped without executing any of its statements; a
\* second Do over an unchanged directory, after a successful first Do,
\* executes no statement and leaves the version table unchanged, and a later
\* Do over a directory with additional higher-numbered files adds exactly one
\* version row per additional file.
C21_SkipsAppliedVersions ==
    res.op = "Do"
    => /\ \A i \in DOMAIN res.executed :
             res.dir[res.executed[i].file].Version > VersionAtStart(res)
       /\ (res.run = 2 /\ res.earlierErr = "" /\ res.files = res.earlier)
             => /\ res.executed = << >>
                /\ res.err = ""
                /\ db.versions = res.before.versions
       /\ (res.run = 2 /\ res.earlierErr = "" /\ res.err = ""
             /\ \A f \in Additional(res) : \A g \in res.earlier :
                   ParseDigits(f.name, 0) > ParseDigits(g.name, 0))
             => Cardinality(db.versions \ res.before.versions) = Cardinality(Additional(res))

\* the positions in the log of a run at which file i of the directory had
\* its version recorded
AppliedAt(r, i) ==
    {k \in DOMAIN r.executed : r.executed[k].file = i /\ r.executed[k].sql[1] = "version"}

\* C25: after a successful Do, every migration file of the directory whose
\* numeric version is greater than the schema version recorded when Do
\* started has been applied exactly once, in ascending numeric version
\* order, and the highest recorded version equals the highest file version.
C25_AllNewerFilesApplied ==
    (res.op = "Do" /\ res.err = "")
    => /\ \A i \in DOMAIN res.dir :
             res.dir[i].Version > VersionAtStart(res) => Cardinality(AppliedAt(res, i)) = 1
       /\ \A i \in DOMAIN res.dir : \A j \in DOMAIN res.dir :
             \A k \in AppliedAt(res, i) : \A l \in AppliedAt(res, j) :
                k < l => res.dir[i].Version < res.dir[j].Version
       /\ (\E i \in DOMAIN res.dir : res.dir[i].Version > VersionAtStart(res))
             => \A i \in DOMAIN res.dir : res.dir[i].Version <= CurrentVersion(db.versions)

\* ----------------------------------- associations on fields of another shape

\* types whose oneToMany field is no slice of pointers to structs
ShapeTypes == {"ScalarItems", "StructItems"}

\* a caller registers a type: AddType(reflect.TypeOf(v))
SAddType ==
    /\ res = NoRes
    /\ \E name \in ShapeTypes : \E gotype \in Shapes(name) :
          BadTypeReturns(name, gotype, AddType(typeCache, heap, gotype))

ShapeAllAny(types) ==
    \E name \in ShapeTypes : \E S \in SUBSET Keys :
    \E includes \in IncludeLists(types[name].ti) : \E elemIsPtr \in BOOLEAN :
    \E arr \in PriorSlices(UsedOf(StructFields(name), types[name].zero), elemIsPtr) :
       AllCall(types,
               [ type |-> name, includes |-> includes, elemIsPtr |-> elemIsPtr,
                 arr |-> arr, q |-> PrimaryQuery(types[name].ti, S),
                 matched |-> Len(RunQuery(db.tables, PrimaryQuery(types[name].ti, S)).rows) ])

\* session.Find(sql, nil).Include("Items").All(&results)
SAll == res = NoRes /\ ShapeAllAny(TypeTable)

ShapeNext == SAddType \/ SAll

SpecShape == QueryInit /\ [][ShapeNext]_vars

\* C22: a one-to-many association declared on a field that is not a
\* sequence of pointers to structs is reported as an error value when the
\* association is registered or resolved; it never aborts the process and
\* never assigns the field.
C22_ShapeErrorReported ==
    /\ (res.op = "AddType" /\ res.name \in ShapeTypes) => res.err # "panic"
    /\ (res.op = "All" /\ res.type \in ShapeTypes /\ res.elemIsPtr /\ res.arr = << >>
          /\ res.matched >= 1 /\ "Items" \in Range(res.includes))
       => /\ res.err \notin {"", "panic"}
          /\ \A k \in DOMAIN res.dest :
                res.dest[k].e.Items = TypeTable[res.type].zero.Items

\* ------------------------------------ substitution, the order of the fields

\* the type of the binding: no name of its fields begins with another
OrderType == "userWithoutTableNameTag"

RECURSIVE Orders(_)
\* the orders in which a range over a map may visit the keys
Orders(names) ==
    IF names = {} THEN {<< >>}
    ELSE UNION {{<<n>> \o o : o \in Orders(names \ {n})} : n \in names}

RECURSIVE SubstituteInOrder(_, _, _, _, _)
\* "for paramName, fi := range paramInfo.FieldInfos { ... }" visiting the
\* fields in the given order
SubstituteInOrder(sqlQuery, ti, param, order, i) ==
    IF i > Len(order) THEN sqlQuery
    ELSE SubstituteInOrder(SubstituteField(sqlQuery, ti.FieldInfos[order[i]], param[order[i]]),
                           ti, param, order, i + 1)

OrderBindings == {[Id |-> i, Name |-> v] : i \in 1..MaxKey, v \in NameValues}

OrderReturns(text, param, order, r, sent) ==
    /\ res' = [op |-> "Subst", query |-> text, param |-> param, order |-> order,
               sent |-> sent]
    /\ typeCache' = r.cache
    /\ heap' = r.heap
    /\ UNCHANGED <<returned, db, nq>>

OrderRegistered(text, param, order, r) ==
    OrderReturns(text, param, order, r,
                 SubstituteInOrder(text, r.heap[r.ref], param, order, 1))

\* session.Find(sql, param) up to the query that is sent
OSubst ==
    /\ res = NoRes
    /\ \E text \in SqlTexts : \E param \in OrderBindings :
       \E order \in Orders(DOMAIN TypeTable[OrderType].ti.FieldInfos) :
          OrderRegistered(text, param, order, AddType(typeCache, heap, <<OrderType>>))

OrderNext == OSubst

SpecOrder == RegInit /\ [][OrderNext]_vars

\* whether no name of a field of the binding begins with another
NoNameIsPrefix(ti) ==
    \A n \in DOMAIN ti.FieldInfos : \A o \in DOMAIN ti.FieldInfos \ {n} :
       ~(Len(FieldChars(n)) <= Len(FieldChars(o))
           /\ SubSeq(FieldChars(o), 1, Len(FieldChars(n))) = FieldChars(n))

\* C23: parameter substitution is deterministic whenever no binding field
\* name is a prefix of another: for the same SQL text and the same binding
\* value, the substituted SQL is the same for every order in which the
\* binding's fields are visited.
C23_SameForEveryOrder ==
    (res.op = "Subst" /\ NoNameIsPrefix(TypeTable[OrderType].ti))
    => \A order \in Orders(DOMAIN TypeTable[OrderType].ti.FieldInfos) :
          res.sent = SubstituteInOrder(res.query, TypeTable[OrderType].ti, res.param, order, 1)

\* the fields of the binding whose placeholder stands at the head of s
HeadPlaceholders(ti, s) ==
    {n \in DOMAIN ti.FieldInfos :
       /\ ~ti.FieldInfos[n].IsTransient
       /\ Len(s) >= Len(Placeholder(n))
       /\ SubSeq(s, 1, Len(Placeholder(n))) = Placeholder(n)}

RECURSIVE OriginalRewritten(_, _, _)
\* the original text with each of its placeholders replaced by the quoted
\* literal of the field, the literals left as they are
OriginalRewritten(ti, s, param) ==
    IF s = << >> THEN << >>
    ELSE IF HeadPlaceholders(ti, s) = {}
    THEN <<Head(s)>> \o OriginalRewritten(ti, Tail(s), param)
    ELSE LET n == CHOOSE m \in HeadPlaceholders(ti, s) : TRUE
         IN  Quote(ti.FieldInfos[n].Type, param[n])
                \o OriginalRewritten(ti, SubSeq(s, Len(Placeholder(n)) + 1, Len(s)), param)

\* C27: parameter substitution only rewrites placeholders of the original
\* SQL text: the quoted literal inserted for one field is never altered by
\* the substitution of another field, even when the field's value contains
\* text of the form :<OtherFieldName>.
C27_LiteralsNotRewritten ==
    res.op = "Subst"
    => res.sent = OriginalRewritten(TypeTable[OrderType].ti, res.query, res.param)

\* ------------------------------------------- All into a slice that is in use

\* whether entity e holds, in the fields of the result's columns, the
\* values of the row
HoldsRow(r, e, row) ==
    \A c \in ResultColumns(r.q) \cap DOMAIN TypeTable[r.type].ti.ColumnInfos :
       e[TypeTable[r.type].ti.ColumnInfos[c].FieldName] = row[c]

\* C26: after a successful All, the destination slice holds exactly the rows
\* returned by the query, in result order, whatever length, capacity or
\* content the caller's slice had before the call.
C26_DestinationIsTheResult ==
    (res.op = "All" /\ res.err = "")
    => LET rows == RunQuery(db.tables, res.q).rows
       IN  /\ Len(res.dest) = Len(rows)
           /\ \A k \in DOMAIN res.dest :
                 /\ res.dest[k] # Nil
                 /\ HoldsRow(res, res.dest[k].e, rows[k])

\* ------------------------------ two associations on one far-side table

\* the included one-to-many associations of the result type that share
\* their far-side table with another included one
SharingFarTable(r) ==
    {a \in IncludedOneToMany(r) :
       \E b \in IncludedOneToMany(r) \ {a} :
          TypeTable[FarType(r, b)].ti.TableName = TypeTable[FarType(r, a)].ti.TableName}

\* C28: after a successful All, every included association that is declared
\* on the result type is populated on every parent, also when two included
\* associations of the type refer to the same far-side table through
\* different foreign-key fields.
C28_BothAssociationsPopulated ==
    (res.op = "All" /\ res.err = "" /\ res.arr = << >>)
    => \A a \in SharingFarTable(res) : \A k \in DOMAIN res.dest :
          /\ res.dest[k].e[a] # NilSlice
          /\ res.dest[k].e[a].k = "list"
          /\ Range(res.dest[k].e[a].items) = ChildRows(res, res.dest[k].e, a)

\* --------------------------- Single and Get, a foreign key without far row

\* the included one-to-one associations of the parent of call r whose
\* foreign key matches no far-side row
Unmatched(r) ==
    {a \in IncludedOneToOne(r) : FarRows(r, r.e, a) = {}}

\* C29: Single and Get return sql.ErrNoRows only when the primary query
\* itself returned no row: when the parent row exists and an included
\* one-to-one association's foreign key matches no far-side row, they return
\* nil and leave the association field nil, as All does for the same parent
\* row.
C29_ErrNoRowsOnlyFromPrimary ==
    /\ (res.op \in {"Single", "Get"} /\ res.ran /\ res.err = "ErrNoRows")
          => res.matched = 0
    /\ (res.op \in {"Single", "Get"} /\ res.ran /\ res.matched >= 1
          /\ res.prior = TypeTable[res.type].zero)
          => \A a \in Unmatched(res) : res.err = "" /\ res.e[a] = Nil

\* ----------------------------------- Insert on the databases of the dialects

LastIdReturns(name, e, dialect, o) ==
    /\ res' = [op |-> "Insert", type |-> name, entity |-> e, dialect |-> dialect,
               inTx |-> FALSE, before |-> db, err |-> o.err, e |-> o.e, sent |-> o.sent]
    /\ db' = o.db
    /\ typeCache' = o.cache
    /\ heap' = o.heap
    /\ nq' = nq + 1
    /\ UNCHANGED returned

\* session.Insert(&entity) on a handle of a database of one of the dialects
LInsert ==
    /\ nq < MaxCalls
    /\ \E dialect \in Dialects : \E name \in WriteTypes : \E e \in Entities(name) :
          LastIdReturns(name, e, dialect,
                        insert(typeCache, heap, db, name, e, TRUE, FALSE, dialect))

LastIdNext == LInsert

SpecLastId == WriteInit /\ [][LastIdNext]_vars

\* C30: if Insert (without transaction) returns an error, no row has been
\* added to the table and the entity is unchanged; in particular a failure to
\* read back the last-insert id does not leave an inserted row behind.
C30_FailedInsertAddsNoRow ==
    (res.op = "Insert" /\ ~res.inTx /\ res.err # "")
    => /\ db.tables = res.before.tables
       /\ res.e = res.entity

\* ------------------------------------------------------- In and NotIn

MaxArgs == 3
MaxSlice == 2

\* the values of In(column, values...): an int, a SafeSqlString or a slice
\* of ints
InScalars ==
    {[kind |-> "int", n |-> i, items |-> << >>] : i \in 1..MaxKey}
       \cup {[kind |-> "SafeSqlString", n |-> 0, items |-> << >>]}

InSlices ==
    {[kind |-> "slice", n |-> 0, items |-> it] : it \in SeqsUpTo(1..MaxKey, MaxSlice)}

InValues == SeqsUpTo(InScalars \cup InSlices, MaxArgs) \ {<< >>}

\* the text of the SafeSqlString of the values
SafeText == <<"N", "O", "W">>

\* "switch t := value.(type) { default: b.WriteString(Quote(t)); case
\* SafeSqlString: b.WriteString(string(t)) }"
WriteValue(b, value) ==
    IF value.kind = "SafeSqlString" THEN b \o SafeText
    ELSE b \o Quote(<<"int">>, value.n)

RECURSIVE WriteSlice(_, _, _)
\* whereIn.SubSql, "for j := 0; j < invlen; j++"; j counts from 1
WriteSlice(b, items, j) ==
    IF j > Len(items) THEN b
    ELSE IF j > 1
    THEN WriteSlice(b \o <<",">> \o Quote(<<"int">>, items[j]), items, j + 1)
    ELSE WriteSlice(b \o Quote(<<"int">>, items[j]), items, j + 1)

RECURSIVE WriteValues(_, _, _)
\* whereIn.SubSql, "for i, value := range w.values"; i counts from 1
WriteValues(b, values, i) ==
    IF i > Len(values) THEN b
    ELSE IF values[i].kind = "slice"
    THEN WriteValues(WriteSlice(b, values[i].items, 1), values, i + 1)
    ELSE IF i > 1
    THEN WriteValues(WriteValue(b \o <<",">>, values[i]), values, i + 1)
    ELSE WriteValues(WriteValue(b, values[i]), values, i + 1)

InColumn == <<"i", "d">>

\* whereIn.SubSql: fmt.Sprintf("%s IN (%s)", w.column, b.String())
whereInSubSql(column, values) ==
    column \o <<" ", "I", "N", " ", "(">> \o WriteValues(<< >>, values, 1) \o <<")">>

\* whereNotIn.SubSql: fmt.Sprintf("%s NOT IN (%s)", w.column, b.String())
whereNotInSubSql(column, values) ==
    column \o <<" ", "N", "O", "T", " ", "I", "N", " ", "(">>
       \o WriteValues(<< >>, values, 1) \o <<")">>

InReturns(op, values, sql) ==
    /\ res' = [op |-> op, column |-> InColumn, values |-> values, sql |-> sql]
    /\ UNCHANGED <<typeCache, heap, returned, db, nq>>

\* Q(table).Where().In("id", values...).Sql(), the clause of it
IIn ==
    /\ res = NoRes
    /\ \E values \in InValues : InReturns("In", values, whereInSubSql(InColumn, values))

\* Q(table).Where().NotIn("id", values...).Sql(), the clause of it
INotIn ==
    /\ res = NoRes
    /\ \E values \in InValues : InReturns("NotIn", values, whereNotInSubSql(InColumn, values))

InNext == IIn \/ INotIn

SpecIn == RegInit /\ [][InNext]_vars

RECURSIVE Flattened(_)
\* the given values in argument order, a slice replaced by its elements
Flattened(values) ==
    IF values = << >> THEN << >>
    ELSE IF Head(values).kind = "slice"
    THEN [j \in DOMAIN Head(values).items |->
            [kind |-> "int", n |-> Head(values).items[j], items |-> << >>]]
         \o Flattened(Tail(values))
    ELSE <<Head(values)>> \o Flattened(Tail(values))

RECURSIVE CommaSeparated(_)
\* the literals of scalar values with one comma between neighbours
CommaSeparated(scalars) ==
    IF scalars = << >> THEN << >>
    ELSE IF Len(scalars) = 1 THEN WriteValue(<< >>, scalars[1])
    ELSE WriteValue(<< >>, scalars[1]) \o <<",">> \o CommaSeparated(Tail(scalars))

\* C24: In and NotIn render every given value in argument order separated by
\* single commas, an argument that is a slice or array being flattened into
\* its elements, for any number and position of scalar and slice arguments.
C24_InRendersEveryValue ==
    /\ res.op = "In"
          => res.sql = res.column \o <<" ", "I", "N", " ", "(">>
                          \o CommaSeparated(Flattened(res.values)) \o <<")">>
    /\ res.op = "NotIn"
          => res.sql = res.column \o <<" ", "N", "O", "T", " ", "I", "N", " ", "(">>
                          \o CommaSeparated(Flattened(res.values)) \o <<")">>

====
